---- MODULE Spec2Model ----
(***************************************************************************)
(* cosm-orc: the orchestrator facade (store / instantiate / execute /      *)
(* query / migrate), the contract deployment tracker (ContractMap), the    *)
(* gas profiler and the transaction pipeline of the client, as a state     *)
(* machine.  One action is the code that runs between two awaits of a      *)
(* facade call: a call that fails before its first network round-trip is   *)
(* a single step.                                                          *)
(***************************************************************************)
EXTENDS Integers, Sequences, FiniteSets, TLC

(***************************************************************************)
(* Bounds of the model.                                                    *)
(***************************************************************************)
\* facade / tracker operations started in one behaviour
MaxCalls == 2
\* at most this many GasProfiler::instrument calls in SpecProfiler
MaxInstr == 2
\* the simulated gas_used of SpecFee runs over 0..MaxGasUsed (and two large values)
MaxGasUsed == 60
\* SpecPoll: block heights are 0..MaxHeight, poll_for_n_blocks waits for up
\* to MaxN blocks with a timeout of up to MaxTimeout sleep intervals
MaxHeight == 3
MaxN == 2
MaxTimeout == 2

(***************************************************************************)
(* Value universes.                                                        *)
(***************************************************************************)
\* Option<T>: None is the empty sequence, Some(v) the one-element sequence
None == <<>>
Some(v) == <<v>>
Unwrap(o) == o[1]

\* Result<T, E>
Ok(v) == [ok |-> TRUE, val |-> v]
Err(e) == [ok |-> FALSE, err |-> e]

Names == {"cw_a", "cw_b"}
CodeIds == {1, 2}
Labels == {"op"}

(***************************************************************************)
(* orchestrator/deploy.rs: ContractMap                                     *)
(***************************************************************************)
\* DeployInfo { code_id: Option<u64>, address: Option<String> }
DeployInfo(c, a) == [code_id |-> c, address |-> a]

\* ContractMapError
NotStored(name) == [kind |-> "NotStored", name |-> name]
NotDeployed(name) == [kind |-> "NotDeployed", name |-> name]

\* HashMap::entry(name).or_insert(DeployInfo { None, None })
or_insert(map, name) ==
    IF name \in DOMAIN map
    THEN map
    ELSE [n \in DOMAIN map \cup {name} |->
            IF n = name THEN DeployInfo(None, None) ELSE map[n]]

\* mutant: the upsert rebuilds the entry and drops its address
register_contract_reset(map, name, code_id_) ==
    [n \in DOMAIN map \cup {name} |->
        IF n = name THEN DeployInfo(Some(code_id_), None) ELSE map[n]]

\* mutant: a code id that is already there is kept (first write wins)
register_contract_keep(map, name, code_id_) ==
    LET m == or_insert(map, name)
    IN  IF m[name].code_id = None THEN [m EXCEPT ![name].code_id = Some(code_id_)] ELSE m

\* ContractMap::register_contract
register_contract(map, name, code_id_) ==
    LET m == or_insert(map, name)
    IN  [m EXCEPT ![name].code_id = Some(code_id_)]

\* mutant: an entry without a code id reports NotDeployed
code_id_not_deployed(map, name) ==
    IF name \notin DOMAIN map
    THEN Err(NotStored(name))
    ELSE IF map[name].code_id = None
         THEN Err(NotDeployed(name))
         ELSE Ok(Unwrap(map[name].code_id))

\* mutant: a name without a code id resolves to code id 0
code_id_unchecked(map, name) ==
    IF name \in DOMAIN map /\ map[name].code_id # None
    THEN Ok(Unwrap(map[name].code_id))
    ELSE Ok(0)

\* ContractMap::code_id
code_id(map, name) ==
    IF name \notin DOMAIN map
    THEN Err(NotStored(name))
    ELSE IF map[name].code_id = None
         THEN Err(NotStored(name))
         ELSE Ok(Unwrap(map[name].code_id))

\* mutant: a missing entry and a missing address are the same error
address_one_error(map, name) ==
    IF name \notin DOMAIN map
    THEN Err(NotDeployed(name))
    ELSE IF map[name].address = None
         THEN Err(NotDeployed(name))
         ELSE Ok(Unwrap(map[name].address))

\* mutant: an entry without an address reports NotStored
address_not_stored(map, name) ==
    IF name \in DOMAIN map /\ map[name].address # None
    THEN Ok(Unwrap(map[name].address))
    ELSE Err(NotStored(name))

\* ContractMap::address
address(map, name) ==
    IF name \notin DOMAIN map
    THEN Err(NotStored(name))
    ELSE IF map[name].address = None
         THEN Err(NotDeployed(name))
         ELSE Ok(Unwrap(map[name].address))

\* mutant: the upsert rebuilds the entry and drops its code id
add_address_reset(map, name, addr) ==
    [n \in DOMAIN map \cup {name} |->
        IF n = name THEN DeployInfo(None, Some(addr)) ELSE map[n]]

\* ContractMap::add_address (always Ok)
add_address(map, name, addr) ==
    LET m == or_insert(map, name)
    IN  [m EXCEPT ![name].address = Some(addr)]

(***************************************************************************)
(* orchestrator/gas_profiler.rs: GasProfiler                               *)
(***************************************************************************)
\* Location::caller(): the caller's program calls each facade operation from
\* one place
CallLoc(op) ==
    [file |-> "tests/a.rs",
     line |-> CASE op = "store_contracts" -> 10 [] op = "instantiate" -> 20
                [] op = "execute" -> 30 [] OTHER -> 40]

GasReport(response, caller_loc) ==
    [gas_wanted |-> response.gas_wanted, gas_used |-> response.gas_used,
     file_name |-> caller_loc.file, line_number |-> caller_loc.line]

\* enum CommandType, as {:?} prints it
CommandTypes == {"Store", "Instantiate", "Query", "Execute", "Migrate"}

\* mutant: the key is the label alone
op_key_label(op_type, op_name) == op_name

\* format!("{op_type:?}__{op_name}")
op_key(op_type, op_name) == op_type \o "__" \o op_name

\* mutant: the gas of an entry that is already there is added to
report_insert_sum(report, contract, key, value) ==
    LET inner == IF contract \in DOMAIN report THEN report[contract] ELSE <<>>
        inner2 == [k \in DOMAIN inner \cup {key} |->
                      IF k # key THEN inner[k]
                      ELSE IF key \in DOMAIN inner
                           THEN [value EXCEPT
                                   !.gas_used = @ + inner[key].gas_used,
                                   !.gas_wanted = @ + inner[key].gas_wanted]
                           ELSE value]
    IN  [c \in DOMAIN report \cup {contract} |->
            IF c = contract THEN inner2 ELSE report[c]]

\* mutant: the entries of the contract are started afresh
report_insert_fresh(report, contract, key, value) ==
    [c \in DOMAIN report \cup {contract} |->
        IF c = contract THEN [k \in {key} |-> value] ELSE report[c]]

\* HashMap::entry(contract).or_default().insert(key, value)
report_insert(report, contract, key, value) ==
    LET inner == IF contract \in DOMAIN report THEN report[contract] ELSE <<>>
        inner2 == [k \in DOMAIN inner \cup {key} |->
                      IF k = key THEN value ELSE inner[k]]
    IN  [c \in DOMAIN report \cup {contract} |->
            IF c = contract THEN inner2 ELSE report[c]]

\* mutant: a Query is recorded like any other operation
instrument_query_too(report, contract, op_name, op_type, response, caller_loc) ==
    report_insert(report, contract, op_key(op_type, op_name),
                  GasReport(response, caller_loc))

\* GasProfiler::instrument
instrument(report, contract, op_name, op_type, response, caller_loc) ==
    IF op_type = "Query"
    THEN report
    ELSE report_insert(report, contract, op_key(op_type, op_name),
                       GasReport(response, caller_loc))

\* mutant: the profiler is never written to
instrument_opt_off(profiler, contract, op_name, op_type, response, caller_loc) ==
    profiler

\* if let Some(p) = gas_profiler { p.instrument(..) }
instrument_opt(profiler, contract, op_name, op_type, response, caller_loc) ==
    IF profiler = None
    THEN None
    ELSE Some(instrument(Unwrap(profiler), contract, op_name, op_type,
                         response, caller_loc))

(***************************************************************************)
(* Strings that the code takes apart (parses, trims) are sequences of      *)
(* pieces; Str puts the pieces together again.                             *)
(***************************************************************************)
RECURSIVE Str(_)
Str(pieces) ==
    IF pieces = <<>> THEN "" ELSE pieces[1] \o Str(Tail(pieces))

DigitVal(ch) ==
    CASE ch = "0" -> 0 [] ch = "1" -> 1 [] ch = "2" -> 2 [] ch = "3" -> 3
      [] ch = "4" -> 4 [] ch = "5" -> 5 [] ch = "6" -> 6 [] ch = "7" -> 7
      [] ch = "8" -> 8 [] ch = "9" -> 9 [] OTHER -> -1

RECURSIVE DigitsVal(_, _)
DigitsVal(chars, acc) ==
    IF chars = <<>>
    THEN acc
    ELSE DigitsVal(Tail(chars), acc * 10 + DigitVal(chars[1]))

\* str::parse::<u64>(): an optional "+", then one or more decimal digits.
\* (The strings of the model are too short to overflow a u64.)
parse_u64(chars) ==
    LET digits == IF chars # <<>> /\ chars[1] = "+" THEN Tail(chars) ELSE chars
    IN  IF digits = <<>> \/ \E i \in DOMAIN digits : DigitVal(digits[i]) < 0
        THEN None
        ELSE Some(DigitsVal(digits, 0))

(***************************************************************************)
(* The chain's answers (tendermint broadcast_tx_commit Response).          *)
(***************************************************************************)
Attr(key, value) == [key |-> key, value |-> value]
Event(type_str, attributes) == [type_str |-> type_str, attributes |-> attributes]

\* abci Code: 0 is Ok, anything else is Err
CodeOk == 0
is_err(code) == code # CodeOk

TxResult(code, log, gas_used, gas_wanted, events) ==
    [code |-> code, log |-> log, gas_used |-> gas_used,
     gas_wanted |-> gas_wanted, events |-> events]

Commit(check_tx, deliver_tx) == [check_tx |-> check_tx, deliver_tx |-> deliver_tx]

EvStore(v) == Event("store_code", <<Attr("code_id", v)>>)
EvInst(a) == Event("instantiate", <<Attr("_contract_address", <<a>>)>>)
EvMsg == Event("message", <<Attr("module", <<"wasm">>)>>)

\* event lists of delivered transactions: EvA carries code id 1 and address
\* cosmos1abc, EvB code id 2 and address cosmos1xyz (each as the first of
\* several candidates); the others lack the event, the attribute or a number
EvA == <<EvMsg,
         Event("store_code", <<Attr("checksum", <<"ab">>), Attr("code_id", <<"1">>),
                               Attr("code_id", <<"2">>)>>),
         Event("instantiate", <<Attr("code_id", <<"1">>),
                                Attr("_contract_address", <<"cosmos1abc">>),
                                Attr("_contract_address", <<"cosmos1xyz">>)>>)>>
EvB == <<EvStore(<<"+", "0", "2">>), EvStore(<<"1">>),
         EvInst("cosmos1xyz"), EvInst("cosmos1abc")>>
EvNoEvent == <<EvMsg>>
EvNoAttr == <<Event("store_code", <<Attr("checksum", <<"ab">>)>>),
              Event("instantiate", <<Attr("code_id", <<"1">>)>>)>>
EvNoNumber == <<EvStore(<<"x", "1">>), EvStore(<<"1">>)>>

CheckOk == TxResult(CodeOk, "", 0, 0, <<>>)

\* broadcast_commit answers: rejected at pre-check, rejected at delivery,
\* rejected at both, and delivered with each event list
Rejections ==
    { Commit(TxResult(5, "insufficient funds", 0, 0, <<>>),
             TxResult(CodeOk, "", 0, 0, <<>>)),
      Commit(CheckOk, TxResult(10, "error log", 1001, 1002, EvA)),
      Commit(TxResult(32, "account sequence mismatch", 3, 4, <<>>),
             TxResult(11, "out of gas", 7, 8, <<>>)) }
Deliveries ==
    { Commit(CheckOk, TxResult(CodeOk, "", 100, 101, EvA)),
      Commit(CheckOk, TxResult(CodeOk, "", 200, 202, EvB)),
      Commit(CheckOk, TxResult(CodeOk, "", 100, 101, EvNoEvent)),
      Commit(CheckOk, TxResult(CodeOk, "", 100, 101, EvNoAttr)),
      Commit(CheckOk, TxResult(CodeOk, "", 100, 101, EvNoNumber)) }
CommitResponses == Rejections \cup Deliveries

\* client/error.rs TendermintRes { code, log }: From<TxResult> and
\* From<AbciQuery>, what `res: <result>.into()` of a CosmosSdk error keeps
TendermintRes(res) == [code |-> res.code, log |-> res.log]

\* ChainResponse { code, data, log, gas_wanted, gas_used }: From<TxResult>
ChainResponse(res) ==
    [code |-> res.code, log |-> res.log,
     gas_wanted |-> res.gas_wanted, gas_used |-> res.gas_used]

\* mutant: the scan runs from the back and returns the last match
find_event_last(res, key_name) ==
    LET hits == {i \in DOMAIN res.deliver_tx.events :
                    res.deliver_tx.events[i].type_str = key_name}
    IN  IF hits = {} THEN None
        ELSE Some(res.deliver_tx.events[CHOOSE i \in hits : \A j \in hits : j <= i])

\* client/cosmos.rs find_event: the first delivered event of that type
find_event(res, key_name) ==
    LET hits == {i \in DOMAIN res.deliver_tx.events :
                    res.deliver_tx.events[i].type_str = key_name}
    IN  IF hits = {} THEN None
        ELSE Some(res.deliver_tx.events[CHOOSE i \in hits : \A j \in hits : i <= j])

\* mutant: the last attribute of that key
find_attribute_last(event, key) ==
    LET hits == {i \in DOMAIN event.attributes : event.attributes[i].key = key}
    IN  IF hits = {} THEN None
        ELSE Some(event.attributes[CHOOSE i \in hits : \A j \in hits : j <= i].value)

\* attributes.iter().find(|a| a.key == key): the first attribute of that key
find_attribute(event, key) ==
    LET hits == {i \in DOMAIN event.attributes : event.attributes[i].key = key}
    IN  IF hits = {} THEN None
        ELSE Some(event.attributes[CHOOSE i \in hits : \A j \in hits : i <= j].value)

(***************************************************************************)
(* Inputs of the facade calls.                                             *)
(***************************************************************************)
\* SigningKey: a good mnemonic, a phrase that is no mnemonic, a seed the
\* derivation path cannot be derived from
Keys == {"good words", "word1 word2", "underivable"}

\* serde_json::to_vec(msg) fails on a value that has no JSON form
Msgs == {"{}", "nan-keyed map"}
Serializable(msg) == msg = "{}"

\* cosmrs Denom::from_str
ValidDenom(d) == d = "ujuno"

\* cosmrs AccountId::from_str / chain::Id::from_str / bech32 prefix
ValidAccountId(a) == a \in {"cosmos1abc", "cosmos1xyz", "cosmos1signer"}
ValidChainId(c) == c = "testing"
ValidPrefix(p) == p = "cosmos"

\* funds: Vec<Coin>
FundsLists == { <<>>, <<"ujuno", "u!">> }
Admins == { None, Some("not-bech32") }
\* instantiate_perms: Option<AccessConfig>; an AccessConfig converts or not
Perms == { None, Some("bad address") }
ValidPerms(p) == p = "Everybody"

\* ClientError / ProcessError / StoreError variants that carry no chain answer
E(kind) == [kind |-> kind]
ECosmosSdk(res) == [kind |-> "CosmosSdk", res |-> res]
\* unwrap() on None / Err: the call does not return
Panic == Err(E("panic"))
IsPanic(r) == ~r.ok /\ r.err.kind = "panic"

(***************************************************************************)
(* config/key.rs                                                           *)
(***************************************************************************)
\* mnemonic_to_signing_key
mnemonic_to_signing_key(key) ==
    IF key = "word1 word2" THEN Err(E("Mnemonic"))
    ELSE IF key = "underivable" THEN Err(E("DerviationPath"))
    ELSE Ok("secp256k1")

\* SigningKey::to_account
to_account(key, prefix) ==
    LET sk == mnemonic_to_signing_key(key)
    IN  IF ~sk.ok THEN sk
        ELSE IF ~ValidPrefix(prefix) THEN Err(E("Crypto"))
        ELSE Ok("cosmos1signer")

\* for fund in funds { cosm_funds.push(fund.try_into()?) }
RECURSIVE try_into_funds(_)
try_into_funds(funds) ==
    IF funds = <<>> THEN Ok(<<>>)
    ELSE IF ~ValidDenom(funds[1]) THEN Err([kind |-> "Denom", name |-> funds[1]])
    ELSE LET rest == try_into_funds(Tail(funds))
         IN  IF rest.ok THEN Ok(<<funds[1]>> \o rest.val) ELSE rest

(***************************************************************************)
(* client/cosmwasm.rs: the message each operation builds before send_tx    *)
(***************************************************************************)
\* CosmWasmClient::store, up to send_tx
store_msg(cfg_, payload, key, perms) ==
    LET sk == mnemonic_to_signing_key(key)
        acc == to_account(key, cfg_.prefix)
    IN  IF ~sk.ok THEN sk
        ELSE IF ~acc.ok THEN acc
        ELSE IF perms # None /\ ~ValidPerms(Unwrap(perms))
             THEN Err(E("InstantiatePerms"))
        ELSE Ok([type |-> "MsgStoreCode", sender |-> acc.val,
                 wasm_byte_code |-> payload, instantiate_permission |-> perms])

\* CosmWasmClient::instantiate, up to send_tx
instantiate_msg(cfg_, code, payload, key, admin, funds) ==
    LET sk == mnemonic_to_signing_key(key)
        acc == to_account(key, cfg_.prefix)
        cosm_funds == try_into_funds(funds)
    IN  IF ~sk.ok THEN sk
        ELSE IF ~acc.ok THEN acc
        ELSE IF ~cosm_funds.ok THEN cosm_funds
        ELSE IF admin # None /\ ~ValidAccountId(Unwrap(admin))
             THEN Err(E("AdminAddress"))
        ELSE Ok([type |-> "MsgInstantiateContract", sender |-> acc.val,
                 admin |-> admin, code_id |-> code, label |-> "cosm-orc",
                 msg |-> payload, funds |-> cosm_funds.val])

\* CosmWasmClient::execute, up to send_tx
execute_msg(cfg_, addr, payload, key, funds) ==
    LET sk == mnemonic_to_signing_key(key)
        acc == to_account(key, cfg_.prefix)
        cosm_funds == try_into_funds(funds)
    IN  IF ~sk.ok THEN sk
        ELSE IF ~acc.ok THEN acc
        ELSE IF ~cosm_funds.ok THEN cosm_funds
        ELSE IF ~ValidAccountId(addr) THEN Panic
        ELSE Ok([type |-> "MsgExecuteContract", sender |-> acc.val,
                 contract |-> addr, msg |-> payload, funds |-> cosm_funds.val])

\* CosmWasmClient::migrate, up to send_tx
migrate_msg(cfg_, addr, new_code_id, payload, key) ==
    LET sk == mnemonic_to_signing_key(key)
        acc == to_account(key, cfg_.prefix)
    IN  IF ~sk.ok THEN sk
        ELSE IF ~acc.ok THEN acc
        ELSE IF ~ValidAccountId(addr) THEN Panic
        ELSE Ok([type |-> "MsgMigrateContract", sender |-> acc.val,
                 contract |-> addr, code_id |-> new_code_id, msg |-> payload])

\* CosmWasmClient::query, up to abci_query
\* (the request's address is a String: parsing it cannot fail)
query_req(addr, payload) ==
    Ok([type |-> "QuerySmartContractStateRequest",
        address |-> addr, query_data |-> payload])

\* CosmWasmClient::store, after send_tx
store_res(tx_res) ==
    LET ev == find_event(tx_res, "store_code")
        at == IF ev = None THEN None ELSE find_attribute(Unwrap(ev), "code_id")
        id == IF at = None THEN None ELSE parse_u64(Unwrap(at))
    IN  IF id = None THEN Panic
        ELSE Ok([code_id |-> Unwrap(id), res |-> ChainResponse(tx_res.deliver_tx)])

\* mutant: a delivery without the address is an error value
instantiate_res_error(tx_res) ==
    LET ev == find_event(tx_res, "instantiate")
        at == IF ev = None THEN None
              ELSE find_attribute(Unwrap(ev), "_contract_address")
    IN  IF at = None THEN Err(E("MissingEvent"))
        ELSE Ok([address |-> Str(Unwrap(at)), res |-> ChainResponse(tx_res.deliver_tx)])

\* CosmWasmClient::instantiate, after send_tx
instantiate_res(tx_res) ==
    LET ev == find_event(tx_res, "instantiate")
        at == IF ev = None THEN None
              ELSE find_attribute(Unwrap(ev), "_contract_address")
    IN  IF at = None THEN Panic
        ELSE Ok([address |-> Str(Unwrap(at)), res |-> ChainResponse(tx_res.deliver_tx)])

\* CosmWasmClient::execute and ::migrate, after send_tx
exec_res(tx_res) == Ok([res |-> ChainResponse(tx_res.deliver_tx)])

(***************************************************************************)
(* client/cosmos.rs: the transaction pipeline                              *)
(***************************************************************************)
\* answers to the account query (abci_query on /cosmos.auth.v1beta1.Query/Account)
AccountAnswerKinds == {"account", "rpc error", "code not ok"}

\* an abci_query answer whose code is not Ok, as the CosmosSdk error keeps it
AbciErr == TendermintRes([code |-> 6, log |-> "unknown address", value |-> <<>>])

\* cosmos.rs account: the BaseAccount, or the error of the failing stage
account(kind, sequence) ==
    CASE kind = "rpc error" -> Err(E("RPC"))
      [] kind = "code not ok" -> Err(ECosmosSdk(AbciErr))
      [] OTHER -> Ok([sequence |-> sequence, account_number |-> 7])

(***************************************************************************)
(* f64 arithmetic of the fee.  ChainCfg.gas_adjustment and gas_prices are  *)
(* f64: a configured decimal n/q is the nearest double, M * 2^-E with      *)
(* 2^52 <= M < 2^53, that is n/q + rho / (q * 2^E) for a small integer rho. *)
(* A product of a u64 (below 2^31 here) and such a double is rounded to    *)
(* the nearest double before ceil() is taken.                              *)
(***************************************************************************)
RECURSIVE Pow2(_)
Pow2(k) == IF k = 0 THEN 1 ELSE 2 * Pow2(k - 1)

\* 2^e mod q
RECURSIVE PowMod2(_, _)
PowMod2(e, q) == IF e = 0 THEN 1 % q ELSE (2 * PowMod2(e - 1, q)) % q

\* the binary exponent of n/q, of an integer k > 0: 2^e <= value < 2^(e+1)
RECURSIVE Log2Floor(_, _)
Log2Floor(n, q) ==
    IF n >= 2 * q THEN Log2Floor(n, 2 * q) + 1
    ELSE IF n < q THEN Log2Floor(2 * n, q) - 1
    ELSE 0
RECURSIVE Log2Int(_)
Log2Int(k) == IF k < 2 THEN 0 ELSE Log2Int(k \div 2) + 1

\* the double nearest to n/q is (n * 2^E + rho) / (q * 2^E)
f64_exp(n, q) == 52 - Log2Floor(n, q)
f64_err(n, q) ==
    LET r == (n * PowMod2(f64_exp(n, q), q)) % q
    IN  IF 2 * r <= q THEN 0 - r ELSE q - r

\* (x as f64 * d).ceil() as u64, d the double nearest to the decimal d[1]/d[2].
\* A product that is not an integer in decimal is further from the integers
\* than any rounding error; one that is an integer k comes out above k when
\* the double is above the decimal by more than half a unit in the last
\* place of k.
f64_mul_ceil(x, d) ==
    LET n == d[1]
        q == d[2]
        k == (x * n) \div q
        rho == f64_err(n, q)
        s == f64_exp(n, q) + Log2Int(k) - 53
        above == IF s >= 31 THEN FALSE
                 ELSE IF s < 0 THEN x * rho * Pow2(0 - s) > q
                 ELSE \/ (x * rho) \div q > Pow2(s)
                      \/ (x * rho) \div q = Pow2(s) /\ (x * rho) % q > 0
    IN  IF (x * n) % q # 0 THEN k + 1
        ELSE IF rho > 0 /\ k > 0 /\ above THEN k + 1
        ELSE k

\* mutant: the simulation has used up a sequence number
sign_doc_bumped(msg, acc, fee) ==
    [msg |-> msg, fee |-> fee, account_number |-> acc.account_number,
     sequence |-> IF fee.gas_limit = 0 THEN acc.sequence ELSE acc.sequence + 1]

\* SignerInfo::single_direct(public key, account.sequence).auth_info(fee), then
\* SignDoc::new(body, auth_info, chain_id, account.account_number), signed
sign_doc(msg, acc, fee) ==
    [msg |-> msg, fee |-> fee, account_number |-> acc.account_number,
     sequence |-> acc.sequence]

\* the envelope of the simulation carries a fee of nothing
zero_fee(cfg_) == [gas_limit |-> 0, amount |-> 0, denom |-> cfg_.denom]

\* a signed envelope on its way: to the simulation or to broadcast_commit
sent(to, doc, ans) ==
    [call |-> to, msg |-> doc.msg, sequence |-> doc.sequence,
     account_number |-> doc.account_number, fee |-> doc.fee, ans |-> ans]

\* answers of the gas simulation (ServiceClient::connect, then simulate)
SimAnswers ==
    { [kind |-> "connect error"],
      [kind |-> "status", code |-> 2, message |-> "out of gas in simulation"],
      [kind |-> "no gas info"],
      [kind |-> "gas", gas_used |-> 100000] }

\* cosmos.rs simulate_gas_fee, up to the connect
simulate_check(cfg_) ==
    IF ~ValidDenom(cfg_.denom) THEN Err([kind |-> "Denom", name |-> cfg_.denom])
    ELSE IF ~ValidChainId(cfg_.chain_id)
         THEN Err([kind |-> "ChainId", chain_id |-> cfg_.chain_id])
    ELSE Ok("signed")

\* cosmos.rs simulate_gas_fee, from the connect on
simulate_gas_fee(cfg_, ans) ==
    CASE ans.kind = "connect error" -> Err(E("GRPC"))
      [] ans.kind = "status" ->
            Err(ECosmosSdk([code |-> ans.code, log |-> ans.message,
                            gas_wanted |-> 0, gas_used |-> 0]))
      [] ans.kind = "no gas info" -> Panic
      [] OTHER ->
            LET gas_limit == f64_mul_ceil(ans.gas_used, cfg_.gas_adjustment)
            IN  Ok([gas_limit |-> gas_limit,
                    amount |-> f64_mul_ceil(gas_limit, cfg_.gas_prices),
                    denom |-> cfg_.denom])

\* answers of broadcast_commit: a Response, or a failure of the call
BroadcastAnswers ==
    { [kind |-> "error"] } \cup { [kind |-> "response", res |-> r] : r \in CommitResponses }

\* the answers worth telling apart: execute and migrate read no event,
\* instantiate no code id
Answers(op) ==
    LET evs == CASE op \in {"execute", "migrate"} -> {EvA, EvB}
                 [] op = "instantiate" -> {EvA, EvB, EvNoEvent, EvNoAttr}
                 [] OTHER -> {EvA, EvB, EvNoEvent, EvNoAttr, EvNoNumber}
    IN  { a \in BroadcastAnswers :
            a.kind = "response" /\ a.res \in Deliveries
               => a.res.deliver_tx.events \in evs }

\* mutant: only the pre-check code is looked at
send_tx_check_only(ans) ==
    IF ans.kind = "error" THEN Err(E("ProtoEncoding"))
    ELSE IF is_err(ans.res.check_tx.code)
         THEN Err(ECosmosSdk(TendermintRes(ans.res.check_tx)))
    ELSE Ok(ans.res)

\* mutant: the delivery code is looked at before the pre-check code
send_tx_deliver_first(ans) ==
    IF ans.kind = "error" THEN Err(E("ProtoEncoding"))
    ELSE IF is_err(ans.res.deliver_tx.code)
         THEN Err(ECosmosSdk(TendermintRes(ans.res.deliver_tx)))
    ELSE IF is_err(ans.res.check_tx.code)
         THEN Err(ECosmosSdk(TendermintRes(ans.res.check_tx)))
    ELSE Ok(ans.res)

\* cosmos.rs send_tx, from the answer of broadcast_commit on
send_tx(ans) ==
    IF ans.kind = "error" THEN Err(E("ProtoEncoding"))
    ELSE IF is_err(ans.res.check_tx.code)
         THEN Err(ECosmosSdk(TendermintRes(ans.res.check_tx)))
    ELSE IF is_err(ans.res.deliver_tx.code)
         THEN Err(ECosmosSdk(TendermintRes(ans.res.deliver_tx)))
    ELSE Ok(ans.res)

(***************************************************************************)
(* The wasm directory of store_contracts.                                  *)
(***************************************************************************)
\* format!("-{}", ARCH)
arch_suffix == "-x86_64"

\* directory entries: two contracts, an optimizoor build of the first, a
\* file that is no wasm, a wasm that cannot be read, a wasm whose name is
\* not valid UTF-8
FileA == [stem |-> <<"cw_a">>, ext |-> "wasm", st |-> "ok"]
FileB == [stem |-> <<"cw_b">>, ext |-> "wasm", st |-> "ok"]
FileArch == [stem |-> <<"cw_a", arch_suffix>>, ext |-> "wasm", st |-> "ok"]
FileNotes == [stem |-> <<"notes">>, ext |-> "md", st |-> "ok"]
FileLocked == [stem |-> <<"locked">>, ext |-> "wasm", st |-> "unreadable"]
FileNotUtf8 == [stem |-> <<"\\xff">>, ext |-> "wasm", st |-> "not utf8"]

\* read_dir yields the entries in some order; None: no such directory
WasmDirs ==
    { None,
      Some(<<FileNotes>>),
      Some(<<FileB, FileNotes, FileA>>),
      Some(<<FileArch, FileA>>),
      Some(<<FileA, FileLocked, FileB>>),
      Some(<<FileNotUtf8, FileB>>) }

\* str::trim_end_matches(suffix): every trailing repetition of the suffix goes
RECURSIVE trim_end_matches(_, _)
trim_end_matches(pieces, suffix) ==
    IF pieces # <<>> /\ pieces[Len(pieces)] = suffix
    THEN trim_end_matches(SubSeq(pieces, 1, Len(pieces) - 1), suffix)
    ELSE pieces

\* internal_api.rs store_contracts: the contract name of a wasm file
contract_name(stem) == Str(trim_end_matches(stem, arch_suffix))

\* the next entry at or after i that the loop does not skip (Len + 1: none)
RECURSIVE next_wasm(_, _)
next_wasm(entries, i) ==
    IF i > Len(entries) \/ entries[i].ext = "wasm"
    THEN i
    ELSE next_wasm(entries, i + 1)

(***************************************************************************)
(* State.                                                                  *)
(***************************************************************************)
VARIABLES
    contract_map,   \* CosmOrc.contract_map
    gas_profiler,   \* CosmOrc.gas_profiler: Option<GasProfiler> (its report)
    cfg,            \* CosmWasmClient.cfg: ChainCfg
    chain_seq,      \* the chain: the signer's account sequence
    pc,             \* where the call in flight stands
    call,           \* the arguments of the call in flight
    tx,             \* send_tx locals: msg, account, fee
    responses,      \* store_contracts: the responses collected so far
    net,            \* the network round-trips the call has completed
    result,         \* what the call returned
    pre,            \* tracker and profiler when the call started
    seed,           \* the tracker the orchestrator was constructed with
    hist,           \* per name: the last code id / address ever registered
    ncalls,         \* calls started so far
    poll            \* poll_for_n_blocks: curr_height, target_height, time gone by

vars == <<contract_map, gas_profiler, cfg, chain_seq, pc, call, tx, responses,
          net, result, pre, seed, hist, ncalls, poll>>

NoCall == [op |-> "none"]
NoPoll == [curr_height |-> None, target_height |-> None, elapsed |-> 0]
NoTx == [msg |-> None, account |-> None, fee |-> None]
NoResult == Ok("pending")
NoPre == [contract_map |-> <<>>, gas_profiler |-> None]

\* ChainCfg values: a good one, and one with a bad denom, chain id or prefix
Cfgs ==
    { [denom |-> d, chain_id |-> c, prefix |-> p,
       gas_adjustment |-> <<3, 2>>, gas_prices |-> <<25, 1000>>] :
        <<d, c, p>> \in { <<"ujuno", "testing", "cosmos">>,
                          <<"u!", "testing", "cosmos">>,
                          <<"ujuno", "Bad Chain Id", "cosmos">>,
                          <<"ujuno", "testing", "COSMOS!">> } }

\* Config.contract_deploy_info: what the tracker is seeded with
SeedInfos(n) ==
    IF n = "cw_a"
    THEN { DeployInfo(Some(1), None), DeployInfo(None, Some("cosmos1abc")),
           DeployInfo(Some(1), Some("cosmos1abc")) }
    ELSE { DeployInfo(Some(2), None) }
Seeds ==
    { m \in UNION { [D -> UNION { SeedInfos(n) : n \in D }] : D \in SUBSET Names } :
        /\ \A n \in DOMAIN m : m[n] \in SeedInfos(n)
        /\ "cw_b" \in DOMAIN m => "cw_a" \in DOMAIN m /\ m["cw_a"].address # None }
FullSeed == CHOOSE m \in Seeds : DOMAIN m = Names /\ m["cw_a"].code_id # None
GoodCfg == CHOOSE c \in Cfgs : ValidDenom(c.denom) /\ ValidChainId(c.chain_id)
                               /\ ValidPrefix(c.prefix)

\* CosmOrc::new.  The profiler is switched on, and a bad ChainCfg is given,
\* with the seed that has both names: the profiler and the configuration are
\* read only by calls that got past the tracker.
Init ==
    /\ seed \in Seeds
    /\ contract_map = seed
    /\ gas_profiler \in { None, Some(<<>>) }
    /\ cfg \in Cfgs
    /\ gas_profiler # None => seed = FullSeed
    /\ cfg # GoodCfg => gas_profiler = None /\ seed = FullSeed
    /\ chain_seq = 0
    /\ pc = "idle"
    /\ call = NoCall
    /\ tx = NoTx
    /\ responses = <<>>
    /\ net = <<>>
    /\ result = NoResult
    /\ pre = NoPre
    /\ hist = [n \in Names |-> [code_id |-> None, address |-> None]]
    /\ ncalls = 0
    /\ poll = NoPoll

\* the record of register_contract / add_address calls
note_code_id(h, name, code_id_) ==
    IF name \in DOMAIN h THEN [h EXCEPT ![name].code_id = Some(code_id_)] ELSE h
note_address(h, name, addr) ==
    IF name \in DOMAIN h THEN [h EXCEPT ![name].address = Some(addr)] ELSE h

Snapshot == [contract_map |-> contract_map, gas_profiler |-> gas_profiler]

(***************************************************************************)
(* Direct use of the tracker (CosmOrc.contract_map is a public field).     *)
(***************************************************************************)
\* the call returns r, or panics
Finish(r) ==
    /\ result' = r
    /\ pc' = IF IsPanic(r) THEN "panicked" ELSE "returned"
    /\ tx' = NoTx

\* the call goes on to its next await with the message it built, or ends
Proceed(prep, next_pc) ==
    IF prep.ok
    THEN /\ pc' = next_pc
         /\ tx' = [NoTx EXCEPT !.msg = Some(prep.val)]
         /\ result' = NoResult
    ELSE Finish(prep)

\* a call starts: c its arguments
Begin(c) ==
    /\ pc = "idle"
    /\ ncalls < MaxCalls
    /\ ncalls' = ncalls + 1
    /\ call' = c
    /\ pre' = Snapshot
    /\ net' = <<>>
    /\ UNCHANGED <<poll, contract_map, gas_profiler, cfg, chain_seq, seed, hist>>

\* a call starts: c its arguments, prep the message it built or its failure
Start(c, prep) ==
    /\ Begin(c)
    /\ responses' = <<>>
    /\ Proceed(prep, IF c.op = "query" THEN "abci_query" ELSE "account")

\* cosm_orc.contract_map.register_contract(name, code_id)
RegisterContract ==
    \E name \in Names, c \in CodeIds :
        /\ pc = "idle"
        /\ ncalls < MaxCalls
        /\ ncalls' = ncalls + 1
        /\ call' = [op |-> "register_contract", name |-> name, code_id |-> c]
        /\ pre' = Snapshot
        /\ contract_map' = register_contract(contract_map, name, c)
        /\ hist' = note_code_id(hist, name, c)
        /\ result' = Ok("unit")
        /\ pc' = "returned"
        /\ UNCHANGED <<poll, gas_profiler, cfg, chain_seq, tx, responses, net, seed>>

\* cosm_orc.contract_map.add_address(name, address)
AddAddress ==
    \E name \in Names, a \in {"cosmos1abc", "not-bech32"} :
        /\ pc = "idle"
        /\ ncalls < MaxCalls
        /\ ncalls' = ncalls + 1
        /\ call' = [op |-> "add_address", name |-> name, address |-> a]
        /\ pre' = Snapshot
        /\ contract_map' = add_address(contract_map, name, a)
        /\ hist' = note_address(hist, name, a)
        /\ result' = Ok("unit")
        /\ pc' = "returned"
        /\ UNCHANGED <<poll, gas_profiler, cfg, chain_seq, tx, responses, net, seed>>

\* a read of the tracker: cosm_orc.contract_map.code_id(name) / .address(name)
Lookup(c, r) ==
    /\ pc = "idle"
    /\ call' = c
    /\ pre' = Snapshot
    /\ result' = r
    /\ pc' = "returned"
    /\ UNCHANGED <<poll, contract_map, gas_profiler, cfg, chain_seq, tx, responses, net,
                   seed, hist, ncalls>>

LookupCodeId ==
    \E name \in Names :
        Lookup([op |-> "code_id", name |-> name], code_id(contract_map, name))

LookupAddress ==
    \E name \in Names :
        Lookup([op |-> "address", name |-> name], address(contract_map, name))

\* the caller takes the result; the call's frame is gone
Return ==
    /\ pc = "returned"
    /\ pc' = "idle"
    /\ call' = NoCall
    /\ result' = NoResult
    /\ pre' = NoPre
    /\ net' = <<>>
    /\ responses' = <<>>
    /\ poll' = NoPoll
    /\ UNCHANGED <<contract_map, gas_profiler, cfg, chain_seq, tx, seed, hist, ncalls>>

(***************************************************************************)
(* orchestrator/internal_api.rs: the facade calls, up to the first await   *)
(***************************************************************************)
\* mutant: a missing code id is not an error, code id 0 is instantiated
instantiate_prep_unchecked(map, cfg_, name, msg, key, admin, funds) ==
    LET id == code_id(map, name)
    IN  IF ~Serializable(msg) THEN Err(E("JsonSerialize"))
        ELSE instantiate_msg(cfg_, IF id.ok THEN id.val ELSE 0, msg, key, admin, funds)

\* instantiate, up to client.instantiate(..).await
instantiate_prep(map, cfg_, name, msg, key, admin, funds) ==
    LET id == code_id(map, name)
    IN  IF ~id.ok THEN id
        ELSE IF ~Serializable(msg) THEN Err(E("JsonSerialize"))
        ELSE instantiate_msg(cfg_, id.val, msg, key, admin, funds)

\* mutant: the payload is serialized before the address is resolved
execute_prep_serialize_first(map, cfg_, name, msg, key, funds) ==
    LET addr == address(map, name)
    IN  IF ~Serializable(msg) THEN Err(E("JsonSerialize"))
        ELSE IF ~addr.ok THEN addr
        ELSE execute_msg(cfg_, addr.val, msg, key, funds)

\* execute, up to client.execute(..).await
execute_prep(map, cfg_, name, msg, key, funds) ==
    LET addr == address(map, name)
    IN  IF ~addr.ok THEN addr
        ELSE IF ~Serializable(msg) THEN Err(E("JsonSerialize"))
        ELSE execute_msg(cfg_, addr.val, msg, key, funds)

\* mutant: the payload goes to the chain without the serialization check
query_prep_unserialized(map, name, msg) ==
    LET addr == address(map, name)
    IN  IF ~addr.ok THEN addr ELSE query_req(addr.val, msg)

\* query, up to client.query(..).await
query_prep(map, name, msg) ==
    LET addr == address(map, name)
    IN  IF ~addr.ok THEN addr
        ELSE IF ~Serializable(msg) THEN Err(E("JsonSerialize"))
        ELSE query_req(addr.val, msg)

\* migrate, up to client.migrate(..).await
migrate_prep(map, cfg_, name, new_code_id, msg, key) ==
    LET addr == address(map, name)
    IN  IF ~addr.ok THEN addr
        ELSE IF ~Serializable(msg) THEN Err(E("JsonSerialize"))
        ELSE migrate_msg(cfg_, addr.val, new_code_id, msg, key)

instantiate ==
    \E name \in Names, op_name \in Labels, msg \in Msgs, key \in Keys,
       admin \in Admins, funds \in FundsLists :
        Start([op |-> "instantiate", name |-> name, op_name |-> op_name,
               loc |-> CallLoc("instantiate")],
              instantiate_prep(contract_map, cfg, name, msg, key, admin, funds))

execute ==
    \E name \in Names, op_name \in Labels, msg \in Msgs, key \in Keys,
       funds \in FundsLists :
        Start([op |-> "execute", name |-> name, op_name |-> op_name,
               loc |-> CallLoc("execute")],
              execute_prep(contract_map, cfg, name, msg, key, funds))

query ==
    \E name \in Names, msg \in Msgs :
        Start([op |-> "query", name |-> name, msg |-> msg],
              query_prep(contract_map, name, msg))

migrate ==
    \E name \in Names, new_code_id \in CodeIds, op_name \in Labels, msg \in Msgs,
       key \in Keys :
        Start([op |-> "migrate", name |-> name, new_code_id |-> new_code_id,
               op_name |-> op_name, loc |-> CallLoc("migrate")],
              migrate_prep(contract_map, cfg, name, new_code_id, msg, key))

\* store_contracts: what the loop does with the entry it stops at
store_prep(cfg_, entry, key, perms) ==
    IF entry.st = "unreadable" THEN Err(E("WasmFileRead"))
    ELSE store_msg(cfg_, Str(entry.stem), key, perms)

store_contracts ==
    \E dir \in WasmDirs, key \in Keys, perms \in Perms :
        LET entries == IF dir = None THEN <<>> ELSE Unwrap(dir)
            i == next_wasm(entries, 1)
            c == [op |-> "store_contracts", entries |-> entries, idx |-> i,
                  key |-> key, perms |-> perms, loc |-> CallLoc("store_contracts")]
        IN  /\ Begin(c)
            /\ responses' = <<>>
            /\ IF dir = None THEN Finish(Err(E("WasmDirRead")))
               ELSE IF i > Len(entries) THEN Finish(Ok(<<>>))
               ELSE Proceed(store_prep(cfg, entries[i], key, perms), "account")

(***************************************************************************)
(* client/cosmos.rs send_tx: one step per network round-trip               *)
(***************************************************************************)
\* mutant: the account of the orchestrator's first lookup is signed with
account_step_stale ==
    /\ pc = "account"
    /\ \E kind \in AccountAnswerKinds :
        LET acc == account(kind, chain_seq)
            chk == simulate_check(cfg)
        IN  /\ net' = Append(net, [call |-> "account", ans |-> kind, res |-> acc])
            /\ IF ~acc.ok THEN Finish(acc)
               ELSE IF ~chk.ok THEN Finish(chk)
               ELSE /\ pc' = "simulate"
                    /\ tx' = [tx EXCEPT !.account = Some(account(kind, 0).val)]
                    /\ UNCHANGED result
    /\ responses' = IF pc' = "simulate" THEN responses ELSE <<>>
    /\ UNCHANGED <<poll, contract_map, gas_profiler, cfg, chain_seq, call, pre, seed,
                   hist, ncalls>>

\* account(client, account_id).await?, then simulate_gas_fee up to its connect
account_step ==
    /\ pc = "account"
    /\ \E kind \in AccountAnswerKinds :
        LET acc == account(kind, chain_seq)
            chk == simulate_check(cfg)
        IN  /\ net' = Append(net, [call |-> "account", ans |-> kind, res |-> acc])
            /\ IF ~acc.ok THEN Finish(acc)
               ELSE IF ~chk.ok THEN Finish(chk)
               ELSE /\ pc' = "simulate"
                    /\ tx' = [tx EXCEPT !.account = Some(acc.val)]
                    /\ UNCHANGED result
    /\ responses' = IF pc' = "simulate" THEN responses ELSE <<>>
    /\ UNCHANGED <<poll, contract_map, gas_profiler, cfg, chain_seq, call, pre, seed,
                   hist, ncalls>>

\* mutant: a simulation that failed is tried once more
simulate_step_retry ==
    /\ pc = "simulate"
    /\ \E ans \in SimAnswers :
        LET fee == simulate_gas_fee(cfg, ans)
            acc == Unwrap(tx.account)
        IN  /\ net' = IF ans.kind = "connect error" THEN net
                      ELSE Append(net, sent("simulate",
                                             sign_doc(Unwrap(tx.msg), acc, zero_fee(cfg)),
                                             ans))
            /\ IF ~fee.ok /\ net # <<>> /\ net[Len(net)].call = "simulate"
               THEN Finish(fee)
               ELSE IF ~fee.ok
               THEN UNCHANGED <<pc, tx, result>>
               ELSE /\ pc' = "broadcast"
                    /\ tx' = [tx EXCEPT !.fee = Some(fee.val)]
                    /\ UNCHANGED result
    /\ responses' = IF pc' = "broadcast" THEN responses ELSE <<>>
    /\ UNCHANGED <<poll, contract_map, gas_profiler, cfg, chain_seq, call, pre, seed,
                   hist, ncalls>>

\* the gas simulation, then the signing of the transaction to broadcast
simulate_step ==
    /\ pc = "simulate"
    /\ \E ans \in SimAnswers :
        LET fee == simulate_gas_fee(cfg, ans)
            acc == Unwrap(tx.account)
        IN  /\ net' = IF ans.kind = "connect error" THEN net
                      ELSE Append(net, sent("simulate",
                                             sign_doc(Unwrap(tx.msg), acc, zero_fee(cfg)),
                                             ans))
            /\ IF ~fee.ok THEN Finish(fee)
               ELSE /\ pc' = "broadcast"
                    /\ tx' = [tx EXCEPT !.fee = Some(fee.val)]
                    /\ UNCHANGED result
    /\ responses' = IF pc' = "broadcast" THEN responses ELSE <<>>
    /\ UNCHANGED <<poll, contract_map, gas_profiler, cfg, chain_seq, call, pre, seed,
                   hist, ncalls>>

\* broadcast_commit answers ans: the round-trip and the chain's sequence
Broadcast(ans) ==
    /\ pc = "broadcast"
    /\ net' = Append(net, sent("broadcast",
                                sign_doc(Unwrap(tx.msg), Unwrap(tx.account),
                                         Unwrap(tx.fee)),
                                ans))
    /\ chain_seq' = IF ans.kind = "response" /\ ~is_err(ans.res.check_tx.code)
                    THEN chain_seq + 1
                    ELSE chain_seq
    /\ UNCHANGED <<poll, cfg, pre, seed, ncalls>>

(***************************************************************************)
(* The answer of broadcast_commit, and the rest of each facade call.       *)
(***************************************************************************)
\* mutant: migrate has registered the new code id before the chain answered
broadcast_rejected_registered ==
    /\ call.op \in {"store_contracts", "instantiate", "execute", "migrate"}
    /\ \E ans \in Answers(call.op) :
        /\ Broadcast(ans)
        /\ ~send_tx(ans).ok
        /\ Finish(send_tx(ans))
    /\ responses' = <<>>
    /\ contract_map' = IF call.op = "migrate"
                       THEN register_contract(contract_map, call.name, call.new_code_id)
                       ELSE contract_map
    /\ UNCHANGED <<gas_profiler, call, hist>>

\* send_tx returned an error: client.<op>(..).await? returns it
broadcast_rejected ==
    /\ call.op \in {"store_contracts", "instantiate", "execute", "migrate"}
    /\ \E ans \in Answers(call.op) :
        /\ Broadcast(ans)
        /\ ~send_tx(ans).ok
        /\ Finish(send_tx(ans))
    /\ responses' = <<>>
    /\ UNCHANGED <<contract_map, gas_profiler, call, hist>>

\* mutant: the address is recorded once the pre-check code is OK
instantiate_done_on_check ==
    /\ call.op = "instantiate"
    /\ \E ans \in Answers(call.op) :
        /\ Broadcast(ans)
        /\ ans.kind = "response"
        /\ ~is_err(ans.res.check_tx.code)
        /\ LET res == instantiate_res(ans.res)
           IN  IF ~res.ok
               THEN /\ Finish(res)
                    /\ UNCHANGED <<contract_map, gas_profiler, hist>>
               ELSE /\ contract_map' = add_address(contract_map, call.name, res.val.address)
                    /\ hist' = note_address(hist, call.name, res.val.address)
                    /\ gas_profiler' = instrument_opt(gas_profiler, call.name, call.op_name,
                                                      "Instantiate", res.val.res, call.loc)
                    /\ Finish(res)
    /\ UNCHANGED <<call, responses>>

\* internal_api.rs instantiate, after client.instantiate(..).await
instantiate_done ==
    /\ call.op = "instantiate"
    /\ \E ans \in Answers(call.op) :
        /\ Broadcast(ans)
        /\ send_tx(ans).ok
        /\ LET res == instantiate_res(send_tx(ans).val)
           IN  IF ~res.ok
               THEN /\ Finish(res)
                    /\ UNCHANGED <<contract_map, gas_profiler, hist>>
               ELSE /\ contract_map' = add_address(contract_map, call.name, res.val.address)
                    /\ hist' = note_address(hist, call.name, res.val.address)
                    /\ gas_profiler' = instrument_opt(gas_profiler, call.name, call.op_name,
                                                      "Instantiate", res.val.res, call.loc)
                    /\ Finish(res)
    /\ UNCHANGED <<call, responses>>

\* mutant: the gas of a transaction rejected at delivery is recorded too
execute_done_rejected_profiled ==
    /\ call.op = "execute"
    /\ \E ans \in Answers(call.op) :
        /\ Broadcast(ans)
        /\ ans.kind = "response"
        /\ ~is_err(ans.res.check_tx.code)
        /\ gas_profiler' = instrument_opt(gas_profiler, call.name, call.op_name,
                                          "Execute", exec_res(ans.res).val.res, call.loc)
        /\ Finish(IF send_tx(ans).ok THEN exec_res(ans.res) ELSE send_tx(ans))
    /\ UNCHANGED <<contract_map, call, responses, hist>>

\* internal_api.rs execute, after client.execute(..).await
execute_done ==
    /\ call.op = "execute"
    /\ \E ans \in Answers(call.op) :
        /\ Broadcast(ans)
        /\ send_tx(ans).ok
        /\ LET res == exec_res(send_tx(ans).val)
           IN  /\ gas_profiler' = instrument_opt(gas_profiler, call.name, call.op_name,
                                                 "Execute", res.val.res, call.loc)
               /\ Finish(res)
    /\ UNCHANGED <<contract_map, call, responses, hist>>

\* internal_api.rs migrate, after client.migrate(..).await
migrate_done ==
    /\ call.op = "migrate"
    /\ \E ans \in Answers(call.op) :
        /\ Broadcast(ans)
        /\ send_tx(ans).ok
        /\ LET res == exec_res(send_tx(ans).val)
           IN  /\ contract_map' = register_contract(contract_map, call.name, call.new_code_id)
               /\ hist' = note_code_id(hist, call.name, call.new_code_id)
               /\ gas_profiler' = instrument_opt(gas_profiler, call.name, call.op_name,
                                                 "Migrate", res.val.res, call.loc)
               /\ Finish(res)
    /\ UNCHANGED <<call, responses>>

\* mutant: when the next wasm file cannot be read, what the call registered
\* and profiled is undone
store_done_rollback ==
    /\ call.op = "store_contracts"
    /\ \E ans \in Answers(call.op) :
        /\ Broadcast(ans)
        /\ send_tx(ans).ok
        /\ LET res == store_res(send_tx(ans).val)
               entry == call.entries[call.idx]
               contract == contract_name(entry.stem)
               j == next_wasm(call.entries, call.idx + 1)
           IN  IF ~res.ok
               THEN /\ Finish(res)
                    /\ responses' = <<>>
                    /\ UNCHANGED <<contract_map, gas_profiler, hist, call>>
               ELSE IF entry.st = "not utf8"
               THEN /\ Finish(Err(E("InvalidWasmFileName")))
                    /\ responses' = <<>>
                    /\ UNCHANGED <<contract_map, gas_profiler, hist, call>>
               ELSE /\ hist' = note_code_id(hist, contract, res.val.code_id)
                    /\ call' = [call EXCEPT !.idx = j]
                    /\ IF j > Len(call.entries)
                       THEN /\ Finish(Ok(Append(responses, res.val)))
                            /\ responses' = Append(responses, res.val)
                            /\ contract_map' = register_contract(contract_map, contract,
                                                                 res.val.code_id)
                            /\ gas_profiler' = instrument_opt(gas_profiler, contract, "Store",
                                                              "Store", res.val.res, call.loc)
                       ELSE LET prep == store_prep(cfg, call.entries[j], call.key, call.perms)
                            IN  /\ Proceed(prep, "account")
                                /\ responses' = IF prep.ok
                                                THEN Append(responses, res.val)
                                                ELSE <<>>
                                /\ contract_map' =
                                      IF prep.ok
                                      THEN register_contract(contract_map, contract,
                                                             res.val.code_id)
                                      ELSE pre.contract_map
                                /\ gas_profiler' =
                                      IF prep.ok
                                      THEN instrument_opt(gas_profiler, contract, "Store",
                                                          "Store", res.val.res, call.loc)
                                      ELSE pre.gas_profiler

\* internal_api.rs store_contracts, after client.store(..).await: the file is
\* registered and the loop goes on to the next wasm file
store_done ==
    /\ call.op = "store_contracts"
    /\ \E ans \in Answers(call.op) :
        /\ Broadcast(ans)
        /\ send_tx(ans).ok
        /\ LET res == store_res(send_tx(ans).val)
               entry == call.entries[call.idx]
               contract == contract_name(entry.stem)
               j == next_wasm(call.entries, call.idx + 1)
           IN  IF ~res.ok
               THEN /\ Finish(res)
                    /\ responses' = <<>>
                    /\ UNCHANGED <<contract_map, gas_profiler, hist, call>>
               ELSE IF entry.st = "not utf8"
               THEN /\ Finish(Err(E("InvalidWasmFileName")))
                    /\ responses' = <<>>
                    /\ UNCHANGED <<contract_map, gas_profiler, hist, call>>
               ELSE /\ contract_map' = register_contract(contract_map, contract, res.val.code_id)
                    /\ hist' = note_code_id(hist, contract, res.val.code_id)
                    /\ gas_profiler' = instrument_opt(gas_profiler, contract, "Store",
                                                      "Store", res.val.res, call.loc)
                    /\ call' = [call EXCEPT !.idx = j]
                    /\ IF j > Len(call.entries)
                       THEN /\ Finish(Ok(Append(responses, res.val)))
                            /\ responses' = Append(responses, res.val)
                       ELSE LET prep == store_prep(cfg, call.entries[j], call.key, call.perms)
                            IN  /\ Proceed(prep, "account")
                                /\ responses' = IF prep.ok
                                                THEN Append(responses, res.val)
                                                ELSE <<>>

(***************************************************************************)
(* client/cosmwasm.rs query: one abci_query round-trip                     *)
(***************************************************************************)
QueryAnswerKinds == {"data", "rpc error", "code not ok", "undecodable"}

\* CosmWasmClient::query, from the answer of abci_query on
query_res(kind) ==
    CASE kind = "rpc error" -> Err(E("RPC"))
      [] kind = "code not ok" -> Err(ECosmosSdk(AbciErr))
      [] kind = "undecodable" -> Err(E("ProtoDecoding"))
      [] OTHER -> Ok([res |-> [code |-> CodeOk, log |-> "", gas_wanted |-> 0,
                               gas_used |-> 0]])

query_done ==
    /\ pc = "abci_query"
    /\ \E kind \in QueryAnswerKinds :
        /\ net' = Append(net, [call |-> "query", msg |-> Unwrap(tx.msg), ans |-> kind])
        /\ Finish(query_res(kind))
    /\ UNCHANGED <<poll, contract_map, gas_profiler, cfg, chain_seq, call, responses,
                   pre, seed, hist, ncalls>>

Next ==
    \/ RegisterContract
    \/ AddAddress
    \/ LookupCodeId
    \/ LookupAddress
    \/ Return
    \/ store_contracts
    \/ instantiate
    \/ execute
    \/ query
    \/ migrate
    \/ account_step
    \/ simulate_step
    \/ broadcast_rejected
    \/ instantiate_done
    \/ execute_done
    \/ migrate_done
    \/ store_done
    \/ query_done

Spec == Init /\ [][Next]_vars

(***************************************************************************)
(* GasProfiler on its own: a fresh profiler (GasProfiler::new) and calls of *)
(* instrument with arguments of every kind.  `pre` is the state before the *)
(* last call, `call` its arguments.                                        *)
(***************************************************************************)
ProfLabels == {"op", "op2"}
\* a chain response and the place of the call it belongs to
ProfSamples ==
    { [response |-> [code |-> CodeOk, log |-> "", gas_wanted |-> 200, gas_used |-> 150],
       loc |-> [file |-> "tests/a.rs", line |-> 20]],
      [response |-> [code |-> CodeOk, log |-> "", gas_wanted |-> 300, gas_used |-> 250],
       loc |-> [file |-> "tests/b.rs", line |-> 30]] }

ProfInit ==
    /\ gas_profiler = Some(<<>>)
    /\ contract_map = <<>>
    /\ seed = <<>>
    /\ cfg = GoodCfg
    /\ chain_seq = 0
    /\ pc = "idle"
    /\ call = NoCall
    /\ tx = NoTx
    /\ responses = <<>>
    /\ net = <<>>
    /\ result = NoResult
    /\ pre = NoPre
    /\ hist = [n \in Names |-> [code_id |-> None, address |-> None]]
    /\ ncalls = 0
    /\ poll = NoPoll

\* profiler.instrument(contract, op_name, op_type, &response, caller_loc)
Instrument ==
    \E contract \in Names, op_name \in ProfLabels, op_type \in CommandTypes,
       s \in ProfSamples :
        /\ ncalls < MaxInstr
        /\ ncalls' = ncalls + 1
        /\ call' = [op |-> "instrument", contract |-> contract, op_name |-> op_name,
                    op_type |-> op_type, response |-> s.response, loc |-> s.loc]
        /\ pre' = Snapshot
        /\ gas_profiler' = Some(instrument(Unwrap(gas_profiler), contract, op_name,
                                           op_type, s.response, s.loc))
        /\ UNCHANGED <<poll, contract_map, cfg, chain_seq, pc, tx, responses, net, result,
                       seed, hist>>

ProfNext == Instrument

SpecProfiler == ProfInit /\ [][ProfNext]_vars

(***************************************************************************)
(* The fee on its own: simulate_gas_fee from the answer of the simulation  *)
(* on, for configured gas adjustments and gas prices of several values.    *)
(***************************************************************************)
GasAdjustments == { <<3, 2>>, <<11, 10>>, <<1, 1>> }
GasPrices == { <<25, 1000>>, <<3, 5>> }
GasUseds == (0..MaxGasUsed) \cup {100000, 100001}
FeeCfgs ==
    { [GoodCfg EXCEPT !.gas_adjustment = a, !.gas_prices = p] :
        a \in GasAdjustments, p \in GasPrices }

FeeInit ==
    /\ cfg \in FeeCfgs
    /\ gas_profiler = None
    /\ contract_map = <<>>
    /\ seed = <<>>
    /\ chain_seq = 0
    /\ pc = "idle"
    /\ call = NoCall
    /\ tx = NoTx
    /\ responses = <<>>
    /\ net = <<>>
    /\ result = NoResult
    /\ pre = NoPre
    /\ hist = [n \in Names |-> [code_id |-> None, address |-> None]]
    /\ ncalls = 0
    /\ poll = NoPoll

\* simulate_gas_fee, the simulation having answered gas_used
SimulateFee ==
    \E gas_used \in GasUseds :
        /\ call' = [op |-> "simulate_gas_fee", gas_used |-> gas_used]
        /\ result' = simulate_gas_fee(cfg, [kind |-> "gas", gas_used |-> gas_used])
        /\ pc' = "returned"
        /\ UNCHANGED <<poll, contract_map, gas_profiler, cfg, chain_seq, tx, responses,
                       net, pre, seed, hist, ncalls>>

FeeNext == SimulateFee

SpecFee == FeeInit /\ [][FeeNext]_vars

(***************************************************************************)
(* The block poller: CosmWasmClient::poll_for_n_blocks under the timeout   *)
(* of internal_api.rs poll_for_n_blocks.  Time is counted in sleep         *)
(* intervals (500 ms): a sleep takes one, a round-trip none or one.  An    *)
(* await that would end after the timeout does not end: the timeout drops  *)
(* the poller there.                                                       *)
(***************************************************************************)
Heights == 0..MaxHeight
\* what a node answers to latest_block: a block, a body that does not parse
\* (a node that is not serving yet), or a failure of the transport
BlockAnswers ==
    { [kind |-> "block", height |-> h] : h \in Heights }
        \cup { [kind |-> "serde"], [kind |-> "io"] }
HealthAnswers == { [kind |-> "healthy"], [kind |-> "io"] }

\* ClientError::RPC from a cosmrs::rpc::Error, with its ErrorDetail
ERpc(detail) == [kind |-> "RPC", detail |-> detail]

\* mutant: every error of the first loop is waited out
first_block_retries_all(ans) == ans.kind # "block"

\* while let Err(e) = latest_block().await: what the loop sleeps on
first_block_retries(ans) == ans.kind = "serde"

\* mutant: the loop ends one block early
keeps_polling_short(curr_height, target_height) == curr_height + 1 < target_height

\* while curr_height < target_height { .. }
keeps_polling(curr_height, target_height) == curr_height < target_height

PollInit ==
    /\ seed = FullSeed
    /\ contract_map = seed
    /\ gas_profiler = Some(<<>>)
    /\ cfg = GoodCfg
    /\ chain_seq = 0
    /\ pc = "idle"
    /\ call = NoCall
    /\ tx = NoTx
    /\ responses = <<>>
    /\ net = <<>>
    /\ result = NoResult
    /\ pre = NoPre
    /\ hist = [n \in Names |-> [code_id |-> None, address |-> None]]
    /\ ncalls = 0
    /\ poll = NoPoll

\* the poller goes on to at, or returns r
PollGoes(at) == pc' = at /\ result' = NoResult
PollReturns(r) == pc' = "returned" /\ result' = r

\* PollBlockError, the variant the Elapsed error of the timeout becomes
ETimeout == E("Timeout")

\* mutant: no timeout, and an await that would end after it never ends
PollAwait_hangs(d, entry, then) ==
    /\ poll.elapsed + d <= call.timeout
    /\ net' = IF entry = None THEN net ELSE Append(net, Unwrap(entry))
    /\ then

\* mutant: the poller runs on when the timeout is over
PollAwait_no_timeout(d, entry, then) ==
    /\ net' = IF entry = None THEN net ELSE Append(net, Unwrap(entry))
    /\ then

\* an await of the poller that takes d intervals and then does `then`, unless
\* the timeout is over first: _timeout(..).await? returns the Elapsed error
PollAwait(d, entry, then) ==
    IF poll.elapsed + d > call.timeout
    THEN /\ PollReturns(Err(ETimeout))
         /\ net' = net
         /\ poll' = [poll EXCEPT !.elapsed = call.timeout]
    ELSE /\ net' = IF entry = None THEN net ELSE Append(net, Unwrap(entry))
         /\ then

PollFrame == UNCHANGED <<contract_map, gas_profiler, cfg, chain_seq, call, tx,
                         responses, pre, seed, hist, ncalls>>

\* cosm_orc.poll_for_n_blocks(n, timeout, is_first_block)
poll_for_n_blocks ==
    \E n \in 0..MaxN, timeout \in 0..MaxTimeout, is_first_block \in BOOLEAN :
        /\ pc = "idle"
        /\ call' = [op |-> "poll_for_n_blocks", n |-> n, timeout |-> timeout,
                    is_first_block |-> is_first_block]
        /\ pre' = Snapshot
        /\ net' = <<>>
        /\ poll' = NoPoll
        /\ PollGoes(IF is_first_block THEN "wait_until_healthy" ELSE "capture")
        /\ UNCHANGED <<contract_map, gas_profiler, cfg, chain_seq, tx, responses,
                       seed, hist, ncalls>>

\* rpc_client.wait_until_healthy(5 s).await?
wait_until_healthy ==
    /\ pc = "wait_until_healthy"
    /\ \E ans \in HealthAnswers, d \in {0, 1} :
        PollAwait(d, Some([call |-> "health", at |-> pc, ans |-> ans]),
            /\ poll' = [poll EXCEPT !.elapsed = @ + d]
            /\ IF ans.kind = "healthy" THEN PollGoes("first_block")
               ELSE PollReturns(Err(ERpc(ans.kind))))
    /\ PollFrame

\* while let Err(e) = rpc_client.latest_block().await { .. }
first_block ==
    /\ pc = "first_block"
    /\ \E ans \in BlockAnswers, d \in {0, 1} :
        PollAwait(d, Some([call |-> "latest_block", at |-> pc, ans |-> ans]),
            /\ poll' = [poll EXCEPT !.elapsed = @ + d]
            /\ IF ans.kind = "block" THEN PollGoes("capture")
               ELSE IF first_block_retries(ans) THEN PollGoes("first_sleep")
               ELSE PollReturns(Err(ERpc(ans.kind))))
    /\ PollFrame

\* time::sleep(500 ms).await, in either loop
poll_sleep ==
    /\ pc \in {"first_sleep", "sleep"}
    /\ PollAwait(1, None,
            /\ poll' = [poll EXCEPT !.elapsed = @ + 1]
            /\ PollGoes(IF pc = "first_sleep" THEN "first_block" ELSE "poll"))
    /\ PollFrame

\* let mut curr_height = latest_block().await?.block.header.height, the
\* target, and the same query in while curr_height < target_height { .. }
latest_block ==
    /\ pc \in {"capture", "poll"}
    /\ \E ans \in BlockAnswers, d \in {0, 1} :
        PollAwait(d, Some([call |-> "latest_block", at |-> pc, ans |-> ans]),
            IF ans.kind # "block"
            THEN /\ poll' = [poll EXCEPT !.elapsed = @ + d]
                 /\ PollReturns(Err(ERpc(ans.kind)))
            ELSE LET target == IF pc = "capture" THEN ans.height + call.n
                               ELSE Unwrap(poll.target_height)
                 IN  /\ poll' = [curr_height |-> Some(ans.height),
                                 target_height |-> Some(target),
                                 elapsed |-> poll.elapsed + d]
                     /\ IF keeps_polling(ans.height, target) THEN PollGoes("sleep")
                        ELSE PollReturns(Ok("unit")))
    /\ PollFrame

PollNext ==
    \/ poll_for_n_blocks
    \/ wait_until_healthy
    \/ first_block
    \/ poll_sleep
    \/ latest_block

SpecPoll == PollInit /\ [][PollNext]_vars

\* the poller under the tokio runtime: a future that can make a step is
\* polled again, a pending round-trip or sleep ends or the timeout fires
SpecPollLive == SpecPoll /\ WF_vars(PollNext)

(***************************************************************************)
(* orchestrator/cosm_orc.rs: the blocking API.  Each call looks the        *)
(* tracker up itself and hands the request to the cosm_tome client inside  *)
(* tokio_block; what that client does is not part of this repository.      *)
(***************************************************************************)
\* execute / migrate, up to the client call: self.contract_map.address(name)?,
\* then `address: addr.parse()?` while the request is built
sync_address(map, name) ==
    LET addr == address(map, name)
    IN  IF ~addr.ok THEN addr
        ELSE IF ~ValidAccountId(addr.val) THEN Err(E("ChainError"))
        ELSE addr

(***************************************************************************)
(* Two transaction calls of one signer in flight at once.  send_tx takes   *)
(* the shared &HttpClient and keeps nothing between its awaits but its own *)
(* locals; CosmWasmClient and CosmOrc are Clone and the client's calls     *)
(* take &self.  Here pc, call, tx and result hold one value per caller.    *)
(***************************************************************************)
Callers == {1, 2}

\* what broadcast_commit answers when the chain's sequence is seq: a chain
\* takes a transaction whose sequence is its own and rejects any other at
\* the pre-check; the call itself may fail
RaceAnswers(sequence, seq) ==
    { [kind |-> "error"] } \cup
    IF sequence = seq
    THEN { [kind |-> "response", res |-> Commit(CheckOk, d)] :
              d \in { TxResult(CodeOk, "", 100, 101, EvNoEvent),
                      TxResult(10, "error log", 1001, 1002, <<>>) } }
    ELSE { [kind |-> "response",
            res |-> Commit(TxResult(32, "account sequence mismatch", 0, 0, <<>>),
                           TxResult(CodeOk, "", 0, 0, <<>>))] }

RaceInit ==
    /\ seed = FullSeed
    /\ contract_map = seed
    /\ gas_profiler = None
    /\ cfg = GoodCfg
    /\ chain_seq \in {0, 1}
    /\ pc = [p \in Callers |-> "account"]
    /\ call = [p \in Callers |->
                 [op |-> "execute", name |-> "cw_a", key |-> "good words"]]
    /\ tx = [p \in Callers |->
               [NoTx EXCEPT !.msg =
                   Some(execute_msg(cfg, IF p = 1 THEN "cosmos1abc" ELSE "cosmos1xyz",
                                    "{}", "good words", <<>>).val)]]
    /\ responses = <<>>
    /\ net = <<>>
    /\ result = [p \in Callers |-> NoResult]
    /\ pre = NoPre
    /\ hist = [n \in Names |-> [code_id |-> None, address |-> None]]
    /\ ncalls = 2
    /\ poll = NoPoll

RaceFrame == UNCHANGED <<contract_map, gas_profiler, cfg, call, responses, pre,
                         seed, hist, ncalls, poll>>

\* caller p's send_tx returns r
RaceReturns(p, r) ==
    /\ pc' = [pc EXCEPT ![p] = IF IsPanic(r) THEN "panicked" ELSE "returned"]
    /\ result' = [result EXCEPT ![p] = r]

\* mutant: the account another call of the signer has looked up is reused
race_account_cached(p) ==
    /\ pc[p] = "account"
    /\ \E kind \in AccountAnswerKinds :
        LET cached == {q \in Callers \ {p} : tx[q].account # None}
            acc == IF cached # {} /\ account(kind, chain_seq).ok
                   THEN Ok(Unwrap(tx[CHOOSE q \in cached : TRUE].account))
                   ELSE account(kind, chain_seq)
        IN  /\ net' = Append(net, [caller |-> p, trip |-> [call |-> "account", ans |-> kind,
                                               res |-> acc]])
            /\ IF ~acc.ok THEN RaceReturns(p, acc) /\ tx' = tx
               ELSE /\ pc' = [pc EXCEPT ![p] = "simulate"]
                    /\ tx' = [tx EXCEPT ![p].account = Some(acc.val)]
                    /\ UNCHANGED result
    /\ UNCHANGED chain_seq
    /\ RaceFrame

\* mutant: one transaction of a signer in flight at a time
race_account_serialized(p) ==
    /\ pc[p] = "account"
    /\ \A q \in Callers \ {p} : pc[q] \notin {"simulate", "broadcast"}
    /\ \E kind \in AccountAnswerKinds :
        LET acc == account(kind, chain_seq)
        IN  /\ net' = Append(net, [caller |-> p, trip |-> [call |-> "account", ans |-> kind,
                                               res |-> acc]])
            /\ IF ~acc.ok THEN RaceReturns(p, acc) /\ tx' = tx
               ELSE /\ pc' = [pc EXCEPT ![p] = "simulate"]
                    /\ tx' = [tx EXCEPT ![p].account = Some(acc.val)]
                    /\ UNCHANGED result
    /\ UNCHANGED chain_seq
    /\ RaceFrame

\* let account = account(client, account_id).await?
race_account(p) ==
    /\ pc[p] = "account"
    /\ \E kind \in AccountAnswerKinds :
        LET acc == account(kind, chain_seq)
        IN  /\ net' = Append(net, [caller |-> p, trip |-> [call |-> "account", ans |-> kind,
                                               res |-> acc]])
            /\ IF ~acc.ok THEN RaceReturns(p, acc) /\ tx' = tx
               ELSE /\ pc' = [pc EXCEPT ![p] = "simulate"]
                    /\ tx' = [tx EXCEPT ![p].account = Some(acc.val)]
                    /\ UNCHANGED result
    /\ UNCHANGED chain_seq
    /\ RaceFrame

\* let fee = simulate_gas_fee(&tx_body, &account, key, cfg).await?
race_simulate(p) ==
    /\ pc[p] = "simulate"
    /\ \E ans \in SimAnswers :
        LET fee == simulate_gas_fee(cfg, ans)
            acc == Unwrap(tx[p].account)
        IN  /\ net' = IF ans.kind = "connect error" THEN net
                      ELSE Append(net, [caller |-> p, trip |-> sent("simulate",
                                sign_doc(Unwrap(tx[p].msg), acc, zero_fee(cfg)), ans)])
            /\ IF ~fee.ok THEN RaceReturns(p, fee) /\ tx' = tx
               ELSE /\ pc' = [pc EXCEPT ![p] = "broadcast"]
                    /\ tx' = [tx EXCEPT ![p].fee = Some(fee.val)]
                    /\ UNCHANGED result
    /\ UNCHANGED chain_seq
    /\ RaceFrame

\* tx_raw.broadcast_commit(client).await, and the two codes
race_broadcast(p) ==
    /\ pc[p] = "broadcast"
    /\ LET doc == sign_doc(Unwrap(tx[p].msg), Unwrap(tx[p].account),
                           Unwrap(tx[p].fee))
       IN  \E ans \in RaceAnswers(doc.sequence, chain_seq) :
            /\ net' = Append(net, [caller |-> p, trip |-> sent("broadcast", doc, ans)])
            /\ chain_seq' = IF ans.kind = "response" /\ ~is_err(ans.res.check_tx.code)
                            THEN chain_seq + 1
                            ELSE chain_seq
            /\ RaceReturns(p, send_tx(ans))
    /\ UNCHANGED tx
    /\ RaceFrame

RaceNext ==
    \E p \in Callers :
        \/ race_account(p)
        \/ race_simulate(p)
        \/ race_broadcast(p)

SpecRace == RaceInit /\ [][RaceNext]_vars

(***************************************************************************)
(* Properties.                                                             *)
(***************************************************************************)
\* the fields of a name's entry; a name without an entry has neither
CodeIdField(map, name) == IF name \in DOMAIN map THEN map[name].code_id ELSE None
AddressField(map, name) == IF name \in DOMAIN map THEN map[name].address ELSE None

\* the call in flight has changed neither the tracker nor the profiler
Untouched == contract_map = pre.contract_map /\ gas_profiler = pre.gas_profiler

\* C1: instantiate for a name whose tracker entry has no code id (no entry,
\* or an entry with an address only) returns NotStored{name} at once: no
\* network call is made, tracker and profiler are as before the call.
C1_InstantiateNotStored ==
    (call.op = "instantiate" /\ CodeIdField(pre.contract_map, call.name) = None)
        => /\ pc = "returned"
           /\ result = Err(NotStored(call.name))
           /\ net = <<>>
           /\ Untouched

\* an instantiate of a name whose entry holds an address only has returned
C1_Witness ==
    /\ pc = "returned"
    /\ call.op = "instantiate"
    /\ call.name \in DOMAIN pre.contract_map
    /\ pre.contract_map[call.name].address # None
    /\ pre.contract_map[call.name].code_id = None
    /\ result = Err(NotStored(call.name))

\* C2: execute, query and migrate resolve the address first: with no entry
\* they return NotStored{name}, with an entry without address
\* NotDeployed{name}; no network call is made, tracker and profiler are as
\* before the call.
C2_AddressResolvedFirst ==
    (call.op \in {"execute", "query", "migrate"}
        /\ AddressField(pre.contract_map, call.name) = None)
        => /\ pc = "returned"
           /\ result = IF call.name \in DOMAIN pre.contract_map
                       THEN Err(NotDeployed(call.name))
                       ELSE Err(NotStored(call.name))
           /\ net = <<>>
           /\ Untouched

\* an execute of a stored, not yet instantiated contract has returned
C2_Witness ==
    /\ pc = "returned"
    /\ call.op = "execute"
    /\ call.name \in DOMAIN pre.contract_map
    /\ pre.contract_map[call.name].code_id # None
    /\ result = Err(NotDeployed(call.name))

\* the last network round-trip of the call, and its broadcasts
LastNet == net[Len(net)]
IsBroadcast(x) == x.call = "broadcast"
Broadcasts == SelectSeq(net, IsBroadcast)

\* the chain rejected the transaction the call broadcast last at delivery
Rejected ==
    /\ net # <<>>
    /\ LastNet.call = "broadcast"
    /\ LastNet.ans.kind = "response"
    /\ LastNet.ans.res.deliver_tx.code # CodeOk

\* what a delivered transaction announces: the value of the first attribute
\* `key` of the first event of type `type_str`
Announced(res, type_str, key) ==
    LET evs == res.deliver_tx.events
        i == CHOOSE i \in DOMAIN evs :
                /\ evs[i].type_str = type_str
                /\ \A j \in 1..(i - 1) : evs[j].type_str # type_str
        ats == evs[i].attributes
        k == CHOOSE k \in DOMAIN ats :
                /\ ats[k].key = key
                /\ \A j \in 1..(k - 1) : ats[j].key # key
    IN  ats[k].value

\* the wasm files of the directory, in the order store_contracts meets them
IsWasm(entry) == entry.ext = "wasm"
WasmFiles == SelectSeq(call.entries, IsWasm)

\* the tracker after the first k files of the call were stored and registered
RECURSIVE AfterStored(_)
AfterStored(k) ==
    IF k = 0 THEN pre.contract_map
    ELSE register_contract(AfterStored(k - 1), contract_name(WasmFiles[k].stem),
            Unwrap(parse_u64(Announced(Broadcasts[k].ans.res, "store_code", "code_id"))))

\* C3, as stated: when the chain rejects the broadcast transaction at
\* delivery, store / instantiate / migrate return a CosmosSdk error and the
\* tracker is exactly as before the call.
C3_RejectedAsBeforeCall ==
    (call.op \in {"store_contracts", "instantiate", "migrate"} /\ Rejected)
        => /\ pc = "returned"
           /\ ~result.ok /\ result.err.kind = "CosmosSdk"
           /\ contract_map = pre.contract_map

\* C3, amended: when the chain rejects the broadcast transaction at
\* delivery, store / instantiate / migrate return a CosmosSdk error and the
\* rejected transaction records nothing: after instantiate and migrate the
\* tracker is as before the call, after store_contracts it is as before the
\* call but for the code ids of the files stored before the rejected one.
C3_RejectedRecordsNothing ==
    (call.op \in {"store_contracts", "instantiate", "migrate"} /\ Rejected)
        => /\ pc = "returned"
           /\ ~result.ok /\ result.err.kind = "CosmosSdk"
           /\ contract_map = IF call.op = "store_contracts"
                              THEN AfterStored(Len(Broadcasts) - 1)
                              ELSE pre.contract_map

\* store_contracts has returned the rejection of its second file
C3_Witness ==
    /\ pc = "returned"
    /\ call.op = "store_contracts"
    /\ Rejected
    /\ Len(Broadcasts) = 2
    /\ LastNet.ans.res.check_tx.code = CodeOk
    /\ result = Err(ECosmosSdk(TendermintRes(LastNet.ans.res.deliver_tx)))

\* C4: every wasm file store_contracts stored has, in the returned
\* responses, the code id its store_code event announced (the code_id
\* attribute as a number), and after the call the tracker's code id of the
\* file's contract name is that code id.
C4_StoredCodeIds ==
    (pc = "returned" /\ call.op = "store_contracts" /\ result.ok)
        => \A i \in DOMAIN result.val :
              LET id == parse_u64(Announced(Broadcasts[i].ans.res, "store_code", "code_id"))
              IN  /\ result.val[i].code_id = Unwrap(id)
                  /\ code_id(contract_map, contract_name(WasmFiles[i].stem))
                        = Ok(result.val[i].code_id)

\* C5: after a successful instantiate the tracker's address of the name is
\* the _contract_address the instantiate event announced, and so is the
\* address of the returned response; the code id of the name is unchanged.
C5_InstantiateRecordsAddress ==
    (pc = "returned" /\ call.op = "instantiate" /\ result.ok)
        => LET a == Str(Announced(LastNet.ans.res, "instantiate", "_contract_address"))
           IN  /\ address(contract_map, call.name) = Ok(a)
               /\ result.val.address = a
               /\ CodeIdField(contract_map, call.name)
                     = CodeIdField(pre.contract_map, call.name)

\* an instantiate has replaced the address of a deployed contract
C5_Witness ==
    /\ pc = "returned"
    /\ call.op = "instantiate"
    /\ result.ok
    /\ AddressField(pre.contract_map, call.name) = Some("cosmos1abc")
    /\ AddressField(contract_map, call.name) = Some("cosmos1xyz")

\* C6: after a successful migrate the code id of the name is new_code_id,
\* its address is the one it had before the call, and the migrate message
\* was broadcast for that address and new_code_id.
C6_MigrateRecordsCodeId ==
    (pc = "returned" /\ call.op = "migrate" /\ result.ok)
        => /\ code_id(contract_map, call.name) = Ok(call.new_code_id)
           /\ AddressField(pre.contract_map, call.name) # None
           /\ AddressField(contract_map, call.name)
                 = AddressField(pre.contract_map, call.name)
           /\ LastNet.call = "broadcast"
           /\ LastNet.msg.type = "MsgMigrateContract"
           /\ Some(LastNet.msg.contract) = AddressField(pre.contract_map, call.name)
           /\ LastNet.msg.code_id = call.new_code_id

\* a migrate has given a deployed contract another code id
C6_Witness ==
    /\ pc = "returned"
    /\ call.op = "migrate"
    /\ result.ok
    /\ CodeIdField(pre.contract_map, call.name) = Some(1)
    /\ CodeIdField(contract_map, call.name) = Some(2)

\* a read of the tracker has returned
LookedUp == pc = "returned" /\ call.op \in {"code_id", "address"}

\* the name was seeded, or passed to register_contract or add_address
Registered(name) ==
    \/ name \in DOMAIN seed
    \/ hist[name].code_id # None
    \/ hist[name].address # None

\* C7: a name that was never seeded and never passed to register_contract or
\* add_address has no entry: code_id and address both fail with
\* NotStored{name}.
C7_NeverRegistered ==
    /\ \A n \in Names : ~Registered(n) => n \notin DOMAIN contract_map
    /\ (LookedUp /\ ~Registered(call.name)) => result = Err(NotStored(call.name))

\* the address of a never registered name was read after another name was
\* given an entry
C7_Witness ==
    /\ LookedUp
    /\ call.op = "address"
    /\ ~Registered(call.name)
    /\ contract_map # <<>>
    /\ result = Err(NotStored(call.name))

\* C8: a name that register_contract was called for (last with code id c)
\* and add_address never, and that was not seeded with an address: code_id
\* returns c, address fails with NotDeployed{name}.
C8_CodeIdOnly ==
    (/\ LookedUp
     /\ hist[call.name].code_id # None
     /\ hist[call.name].address = None
     /\ AddressField(seed, call.name) = None)
        => result = IF call.op = "code_id"
                    THEN Ok(Unwrap(hist[call.name].code_id))
                    ELSE Err(NotDeployed(call.name))

\* the address of a name was read that had no entry before register_contract
C8_Witness ==
    /\ LookedUp
    /\ call.op = "address"
    /\ call.name \notin DOMAIN seed
    /\ hist[call.name].code_id # None
    /\ hist[call.name].address = None
    /\ result = Err(NotDeployed(call.name))

\* C9: after add_address(n, a) on a name without entry, and as long as
\* register_contract was not called for n: address returns a (the address
\* given last), code_id fails with NotStored{name}.
C9_AddressBeforeCodeId ==
    (/\ LookedUp
     /\ call.name \notin DOMAIN seed
     /\ hist[call.name].address # None
     /\ hist[call.name].code_id = None)
        => result = IF call.op = "address"
                    THEN Ok(Unwrap(hist[call.name].address))
                    ELSE Err(NotStored(call.name))

\* the code id of a name was read whose entry holds only the address that
\* add_address gave it
C9_Witness ==
    /\ LookedUp
    /\ call.op = "code_id"
    /\ call.name \notin DOMAIN seed
    /\ call.name \in DOMAIN contract_map
    /\ hist[call.name].address # None
    /\ result = Err(NotStored(call.name))

\* the entries of the names other than name are as before the call
OthersUntouched(name) ==
    /\ DOMAIN contract_map \ {name} = DOMAIN pre.contract_map \ {name}
    /\ \A m \in DOMAIN contract_map \ {name} : contract_map[m] = pre.contract_map[m]

\* C10: register_contract(n, c) sets the code id of n and leaves its address
\* as it was; add_address(n, a) sets the address of n and leaves its code
\* id as it was; neither changes the entry of another name.
C10_FieldsIndependent ==
    /\ (pc = "returned" /\ call.op = "register_contract")
          => /\ CodeIdField(contract_map, call.name) = Some(call.code_id)
             /\ AddressField(contract_map, call.name)
                   = AddressField(pre.contract_map, call.name)
             /\ OthersUntouched(call.name)
    /\ (pc = "returned" /\ call.op = "add_address")
          => /\ AddressField(contract_map, call.name) = Some(call.address)
             /\ CodeIdField(contract_map, call.name)
                   = CodeIdField(pre.contract_map, call.name)
             /\ OthersUntouched(call.name)

\* add_address(n, a), then register_contract(n, c): both are recorded
C10_Witness ==
    /\ pc = "returned"
    /\ call.op = "register_contract"
    /\ call.name \notin DOMAIN seed
    /\ hist[call.name].address # None
    /\ code_id(contract_map, call.name) = Ok(call.code_id)
    /\ address(contract_map, call.name) = Ok(Unwrap(hist[call.name].address))

\* C11: register_contract and add_address always succeed and the last write
\* wins: at any time the code id of a name is the one given by the most
\* recent register_contract for it, its address the one given by the most
\* recent add_address.
C11_LastWriteWins ==
    /\ \A n \in Names :
          /\ hist[n].code_id # None
                => code_id(contract_map, n) = Ok(Unwrap(hist[n].code_id))
          /\ hist[n].address # None
                => address(contract_map, n) = Ok(Unwrap(hist[n].address))
    /\ call.op \in {"register_contract", "add_address"}
          => pc = "returned" /\ result = Ok("unit")

\* register_contract has replaced a code id that an earlier register_contract
\* had given the name
C11_Witness ==
    /\ pc = "returned"
    /\ call.op = "register_contract"
    /\ call.name \notin DOMAIN seed
    /\ CodeIdField(pre.contract_map, call.name) # None
    /\ CodeIdField(pre.contract_map, call.name) # Some(call.code_id)
    /\ code_id(contract_map, call.name) = Ok(call.code_id)

\* the round-trips of the call in flight that are contract-state queries
IsQuery(x) == x.call = "query"
Queries == SelectSeq(net, IsQuery)

\* the query call in flight found an address for its name
QueryWithAddress ==
    /\ call.op = "query"
    /\ address(pre.contract_map, call.name).ok

\* C12 as stated: a finished query whose name has an address has issued
\* exactly one contract-state query and nothing else, and has left the
\* tracker and the profiler report as they were.
C12_QueryExactlyOne ==
    (QueryWithAddress /\ pc \in {"returned", "panicked"})
        => /\ Len(net) = 1
           /\ Len(Queries) = 1
           /\ Untouched

\* C12: a query whose name has an address issues no account lookup, no
\* simulation and no broadcast; it issues exactly one contract-state query
\* when its message serializes and none when it does not; succeeding or
\* failing it leaves the tracker and the profiler report unchanged.
C12_QueryReadOnly ==
    QueryWithAddress
        => /\ Untouched
           /\ Queries = net
           /\ pc \in {"abci_query", "returned"}
           /\ pc = "abci_query" => net = <<>>
           /\ pc = "returned"
                => Len(net) = IF Serializable(call.msg) THEN 1 ELSE 0

\* a query with an address has been answered by the chain with an error
C12_Witness ==
    /\ QueryWithAddress
    /\ pc = "returned"
    /\ Len(Queries) = 1
    /\ ~result.ok
    /\ gas_profiler # None

\* the report before and after the last instrument call
ReportBefore == Unwrap(pre.gas_profiler)
ReportNow == Unwrap(gas_profiler)
\* the entries of a contract in a report; the number of entries of a report
Entries(report, contract) ==
    IF contract \in DOMAIN report THEN report[contract] ELSE <<>>
NumEntries(report, contract) == Cardinality(DOMAIN Entries(report, contract))
\* the last call was instrument with a kind that is / is not Query
InstrumentedQuery == call.op = "instrument" /\ call.op_type = "Query"
InstrumentedOther == call.op = "instrument" /\ call.op_type # "Query"
CallKey == call.op_type \o "__" \o call.op_name

\* C13: instrument with kind Query leaves the report as it was: no contract
\* key and no operation key is created.
C13_QueryIsNoOp ==
    InstrumentedQuery
        => /\ ReportNow = ReportBefore
           /\ DOMAIN ReportNow = DOMAIN ReportBefore
           /\ \A c \in DOMAIN ReportNow : DOMAIN ReportNow[c] = DOMAIN ReportBefore[c]

\* instrument was called with Query for a contract that has no entry, after
\* another call had put something into the report
C13_Witness ==
    /\ InstrumentedQuery
    /\ ReportBefore # <<>>
    /\ call.contract \notin DOMAIN ReportBefore
    /\ call.contract \notin DOMAIN ReportNow

\* C14: instrument with a non-Query kind K and label L on contract C leaves
\* the response's gas_used and gas_wanted and the call site at
\* report[C]["K__L"]; when the key was not there before, C has exactly one
\* entry more; every other entry of the report is as it was.
C14_OneEntry ==
    InstrumentedOther
        => /\ call.contract \in DOMAIN ReportNow
           /\ CallKey \in DOMAIN ReportNow[call.contract]
           /\ ReportNow[call.contract][CallKey]
                = [gas_wanted |-> call.response.gas_wanted,
                   gas_used |-> call.response.gas_used,
                   file_name |-> call.loc.file, line_number |-> call.loc.line]
           /\ CallKey \notin DOMAIN Entries(ReportBefore, call.contract)
                => NumEntries(ReportNow, call.contract)
                     = NumEntries(ReportBefore, call.contract) + 1
           /\ DOMAIN ReportNow = DOMAIN ReportBefore \cup {call.contract}
           /\ \A c \in DOMAIN ReportNow :
                 /\ DOMAIN ReportNow[c] \subseteq
                       DOMAIN Entries(ReportBefore, c) \cup {CallKey}
                 /\ \A k \in DOMAIN Entries(ReportBefore, c) :
                       /\ k \in DOMAIN ReportNow[c]
                       /\ (c # call.contract \/ k # CallKey)
                            => ReportNow[c][k] = ReportBefore[c][k]

\* an Execute with label op was recorded for a contract that had one entry
\* under another key
C14_Witness ==
    /\ InstrumentedOther
    /\ CallKey = "Execute__op"
    /\ NumEntries(ReportBefore, call.contract) = 1
    /\ NumEntries(ReportNow, call.contract) = 2

\* C15: an instrument call with a (contract, kind, label) that was recorded
\* before overwrites: the entry holds this call's gas_used, gas_wanted and
\* call site, not a sum, and the contract has as many entries as before.
C15_Overwrites ==
    (InstrumentedOther /\ CallKey \in DOMAIN Entries(ReportBefore, call.contract))
        => /\ ReportNow[call.contract][CallKey].gas_used = call.response.gas_used
           /\ ReportNow[call.contract][CallKey].gas_wanted = call.response.gas_wanted
           /\ ReportNow[call.contract][CallKey].file_name = call.loc.file
           /\ ReportNow[call.contract][CallKey].line_number = call.loc.line
           /\ NumEntries(ReportNow, call.contract)
                = NumEntries(ReportBefore, call.contract)
           /\ DOMAIN ReportNow = DOMAIN ReportBefore

\* the second call with the same contract, kind and label brought another
\* response from another place
C15_Witness ==
    /\ InstrumentedOther
    /\ CallKey \in DOMAIN Entries(ReportBefore, call.contract)
    /\ ReportBefore[call.contract][CallKey].gas_used # call.response.gas_used
    /\ ReportBefore[call.contract][CallKey].file_name # call.loc.file
    /\ ReportNow[call.contract][CallKey].gas_used = call.response.gas_used

\* what the profiler has to hold for a transaction the chain delivered as
\* `delivered`, sent by the call in flight
Recorded(delivered) ==
    [gas_wanted |-> delivered.gas_wanted, gas_used |-> delivered.gas_used,
     file_name |-> call.loc.file, line_number |-> call.loc.line]
\* the facade call in flight has succeeded with the profiler switched on
Profiled(ops) ==
    /\ gas_profiler # None
    /\ call.op \in ops
    /\ pc = "returned"
    /\ result.ok
KindOf(op) ==
    CASE op = "instantiate" -> "Instantiate" [] op = "execute" -> "Execute"
      [] op = "migrate" -> "Migrate" [] OTHER -> "Store"

\* C16: with the profiler on, a successful instantiate / execute / migrate on
\* contract N with label L leaves the gas_used and gas_wanted of its chain
\* response at report[N]["Instantiate__L" / "Execute__L" / "Migrate__L"], a
\* successful store leaves each file's under report[contract]["Store__Store"];
\* an execute after one instantiate on the same contract leaves one contract
\* key with exactly two entries.
C16_ProfilerRecords ==
    /\ Profiled({"instantiate", "execute", "migrate"})
          => LET key == KindOf(call.op) \o "__" \o call.op_name
             IN  /\ call.name \in DOMAIN ReportNow
                 /\ key \in DOMAIN ReportNow[call.name]
                 /\ ReportNow[call.name][key] = Recorded(LastNet.ans.res.deliver_tx)
                 /\ ReportNow[call.name][key].gas_used = result.val.res.gas_used
                 /\ ReportNow[call.name][key].gas_wanted = result.val.res.gas_wanted
    /\ Profiled({"store_contracts"})
          => \A k \in 1..Len(WasmFiles) :
                LET contract == contract_name(WasmFiles[k].stem)
                IN  /\ contract \in DOMAIN ReportNow
                    /\ "Store__Store" \in DOMAIN ReportNow[contract]
                    /\ (\A j \in (k + 1)..Len(WasmFiles) :
                            contract_name(WasmFiles[j].stem) # contract)
                         => /\ ReportNow[contract]["Store__Store"]
                                 = Recorded(Broadcasts[k].ans.res.deliver_tx)
                            /\ ReportNow[contract]["Store__Store"].gas_used
                                 = result.val[k].res.gas_used
    /\ (/\ Profiled({"execute"})
        /\ DOMAIN ReportBefore = {call.name}
        /\ DOMAIN ReportBefore[call.name] = {"Instantiate__" \o call.op_name})
          => /\ DOMAIN ReportNow = {call.name}
             /\ Cardinality(DOMAIN ReportNow[call.name]) = 2

\* an execute has succeeded after an instantiate on the same contract, both
\* recorded by the profiler
C16_Witness ==
    /\ Profiled({"execute"})
    /\ DOMAIN ReportBefore = {call.name}
    /\ DOMAIN ReportBefore[call.name] = {"Instantiate__" \o call.op_name}
    /\ DOMAIN ReportNow[call.name]
         = {"Instantiate__" \o call.op_name, "Execute__" \o call.op_name}
    /\ ReportNow[call.name]["Execute__" \o call.op_name].gas_used
         = result.val.res.gas_used

\* the ceiling of x * d[1]/d[2] in exact arithmetic
ExactCeil(x, d) == (x * d[1] + d[2] - 1) \div d[2]

\* C17: the fee has gas_limit = ceil(gas_used * gas_adjustment) and
\* amount = ceil(gas_limit * gas_price), gas_limit being the rounded one;
\* gas_used 100000 with adjustment 1.5 and price 0.025 gives 150000 and 3750.
C17_FeeCeilings ==
    call.op = "simulate_gas_fee"
        => /\ result.ok
           /\ result.val.gas_limit = ExactCeil(call.gas_used, cfg.gas_adjustment)
           /\ result.val.amount = ExactCeil(result.val.gas_limit, cfg.gas_prices)
           /\ (/\ call.gas_used = 100000
               /\ cfg.gas_adjustment = <<3, 2>>
               /\ cfg.gas_prices = <<25, 1000>>)
                => result.val.gas_limit = 150000 /\ result.val.amount = 3750

\* the last round-trip of the call in flight was a broadcast that the chain
\* answered with a result
Answered ==
    /\ net # <<>>
    /\ IsBroadcast(LastNet)
    /\ LastNet.ans.kind = "response"
\* the call has failed with a CosmosSdk error that carries the result r
Carries(r) ==
    /\ pc = "returned"
    /\ ~result.ok
    /\ result.err.kind = "CosmosSdk"
    /\ result.err.res.code = r.code
    /\ result.err.res.log = r.log
TxOps == {"store_contracts", "instantiate", "execute", "migrate"}

\* C18: a non-OK pre-check code fails the call with a CosmosSdk error that
\* carries the pre-check result, whatever the delivery code is; an OK
\* pre-check code with a non-OK delivery code fails it with a CosmosSdk error
\* that carries the delivery result; a call succeeds only when both codes of
\* every transaction it broadcast are OK.
C18_CodesInOrder ==
    /\ Answered
          => LET r == LastNet.ans.res
             IN  /\ r.check_tx.code # CodeOk => Carries(r.check_tx)
                 /\ (r.check_tx.code = CodeOk /\ r.deliver_tx.code # CodeOk)
                      => Carries(r.deliver_tx)
                 /\ (r.check_tx.code = CodeOk /\ r.deliver_tx.code = CodeOk)
                      => ~(~result.ok /\ result.err.kind = "CosmosSdk")
    /\ (call.op \in TxOps /\ pc = "returned" /\ result.ok)
          => \A i \in DOMAIN Broadcasts :
                /\ Broadcasts[i].ans.kind = "response"
                /\ Broadcasts[i].ans.res.check_tx.code = CodeOk
                /\ Broadcasts[i].ans.res.deliver_tx.code = CodeOk

\* the chain answered with two non-OK codes and the call failed with the
\* pre-check result
C18_Witness ==
    /\ Answered
    /\ LastNet.ans.res.check_tx.code # CodeOk
    /\ LastNet.ans.res.deliver_tx.code # CodeOk
    /\ LastNet.ans.res.deliver_tx.code # LastNet.ans.res.check_tx.code
    /\ Carries(LastNet.ans.res.check_tx)

\* the account lookups of the call in flight
IsAccount(x) == x.call = "account"
Accounts == SelectSeq(net, IsAccount)

\* C19: within one transaction the simulation and the broadcast are signed
\* with the same sequence and account number, those of the one account
\* lookup made at the start of that transaction.
C19_SameSequence ==
    \A i \in DOMAIN net :
        /\ net[i].call = "simulate"
              => /\ i > 1
                 /\ net[i - 1].call = "account"
                 /\ net[i - 1].res.ok
                 /\ net[i].sequence = net[i - 1].res.val.sequence
                 /\ net[i].account_number = net[i - 1].res.val.account_number
        /\ net[i].call = "broadcast"
              => /\ i > 2
                 /\ net[i - 1].call = "simulate"
                 /\ net[i - 2].call = "account"
                 /\ net[i].msg = net[i - 1].msg
                 /\ net[i].sequence = net[i - 1].sequence
                 /\ net[i].account_number = net[i - 1].account_number
                 /\ net[i].sequence = net[i - 2].res.val.sequence
                 /\ net[i].account_number = net[i - 2].res.val.account_number

\* a transaction was broadcast with a sequence other than the first one
C19_Witness ==
    /\ Answered
    /\ LastNet.sequence > 0
    /\ net[Len(net) - 1].call = "simulate"
    /\ net[Len(net) - 1].sequence = LastNet.sequence

\* the transactions the call in flight has started: one for instantiate,
\* execute and migrate, one for each wasm file store_contracts has got to
TxStarted ==
    IF call.op \in {"instantiate", "execute", "migrate"}
    THEN IF pc = "account" \/ net # <<>> THEN 1 ELSE 0
    ELSE IF call.op = "store_contracts"
    THEN Len(Broadcasts) + (IF pc \in {"account", "simulate", "broadcast"} THEN 1
                            ELSE IF net # <<>> /\ ~IsBroadcast(LastNet) THEN 1
                            ELSE 0)
    ELSE 0

\* C20: the account is looked up afresh for every transaction: a call that
\* has started k transactions has issued k account queries (the k-th is
\* issued in the step that follows the start), and the i-th transaction is
\* signed with the sequence the i-th query returned, which is the chain's
\* sequence at that time.
C20_FreshAccount ==
    call.op \in TxOps
        => /\ Len(Accounts) = IF pc = "account" THEN TxStarted - 1 ELSE TxStarted
           /\ Len(Broadcasts) <= Len(Accounts)
           /\ \A i \in DOMAIN Broadcasts :
                 /\ Accounts[i].res.ok
                 /\ Broadcasts[i].sequence = Accounts[i].res.val.sequence
           /\ Answered
                 => LastNet.sequence
                      = IF LastNet.ans.res.check_tx.code = CodeOk
                        THEN chain_seq - 1 ELSE chain_seq

\* the second transaction of a call that follows another transaction was
\* signed with the sequence of its own lookup
C20_Witness ==
    /\ call.op = "store_contracts"
    /\ Len(Broadcasts) = 2
    /\ Len(Accounts) = 2
    /\ Broadcasts[1].sequence = 1
    /\ Broadcasts[2].sequence = 2
    /\ Accounts[2].res.val.sequence = 2

\* the gas simulations of the call in flight
IsSimulate(x) == x.call = "simulate"
Simulates == SelectSeq(net, IsSimulate)
\* a round-trip of the pipeline that failed
FailedTrip(x) ==
    CASE x.call = "account" -> ~x.res.ok
      [] x.call = "simulate" -> x.ans.kind # "gas"
      [] x.call = "broadcast" ->
            \/ x.ans.kind # "response"
            \/ x.ans.res.check_tx.code # CodeOk
            \/ x.ans.res.deliver_tx.code # CodeOk
      [] OTHER -> FALSE
\* no stage is issued after a failed one, a failed round-trip ends the call
FailedStageEnds ==
    \A i \in DOMAIN net :
        /\ net[i].call = "simulate"
              => i > 1 /\ net[i - 1].call = "account" /\ ~FailedTrip(net[i - 1])
        /\ net[i].call = "broadcast"
              => i > 1 /\ net[i - 1].call = "simulate" /\ ~FailedTrip(net[i - 1])
        /\ FailedTrip(net[i])
              => /\ i = Len(net)
                 /\ pc \in {"returned", "panicked"}
                 /\ ~result.ok

\* C21 as stated: a failed stage ends the call and nothing is retried, and
\* one facade call issues at most one account query, at most one simulation
\* and at most one broadcast.
C21_AtMostOneEach ==
    call.op \in TxOps
        => /\ FailedStageEnds
           /\ Len(Accounts) <= 1
           /\ Len(Simulates) <= 1
           /\ Len(Broadcasts) <= 1

\* C21: a failed stage ends the call and nothing is retried: after a failed
\* account lookup no simulation and no broadcast is issued, after a failed
\* simulation no broadcast; an instantiate / execute / migrate call issues at
\* most one account query, one simulation and one broadcast, a
\* store_contracts call at most one of each for every wasm file, a file's
\* account query following the accepted broadcast of the file before.
C21_NoRetry ==
    call.op \in TxOps
        => /\ FailedStageEnds
           /\ \A i \in DOMAIN net :
                 (net[i].call = "account" /\ i > 1)
                    => /\ call.op = "store_contracts"
                       /\ net[i - 1].call = "broadcast"
                       /\ ~FailedTrip(net[i - 1])
           /\ LET most == IF call.op = "store_contracts" THEN Len(WasmFiles) ELSE 1
              IN  /\ Len(Accounts) <= most
                  /\ Len(Simulates) <= Len(Accounts)
                  /\ Len(Broadcasts) <= Len(Simulates)

\* the simulation of a call has failed after its account lookup
C21_Witness ==
    /\ call.op \in TxOps
    /\ pc = "returned"
    /\ Len(Accounts) = 1
    /\ Len(Simulates) = 1
    /\ FailedTrip(LastNet)
    /\ LastNet.call = "simulate"
    /\ Broadcasts = <<>>

\* the errors of the configuration and of the credentials
ConfigErrors == {"ChainId", "Denom", "Mnemonic", "DerviationPath", "AdminAddress"}

\* C22: a store / instantiate / execute / migrate call that fails with a
\* configuration or credential error (bad chain id, bad fee or funds denom,
\* bad mnemonic, bad derivation path, bad admin address) has issued no
\* account query, no simulation and no broadcast.
C22_ConfigErrorsBeforeNetwork ==
    (/\ call.op \in TxOps
     /\ pc = "returned"
     /\ ~result.ok
     /\ result.err.kind \in ConfigErrors)
        => net = <<>>

\* a poll is in flight or has returned
Polling == call.op = "poll_for_n_blocks"
\* the round-trips of the poll that read a height: the capture and the loop
IsHeightQuery(x) == x.at \in {"capture", "poll"}
HeightQueries == SelectSeq(net, IsHeightQuery)
\* the poll has captured the height H: its first height query was answered
\* with a block
Captured == HeightQueries # <<>> /\ HeightQueries[1].ans.kind = "block"
CapturedHeight == HeightQueries[1].ans.height

\* C23: poll_for_n_blocks returns Ok only after a height query has returned
\* a height >= H + n, H being the height returned by the first height query
\* made after the health-check phase; the target H + n is fixed at the
\* capture, and with n = 0 the call returns Ok right after the capture.
C23_ReturnsAfterTarget ==
    Polling
        => /\ poll.target_height # None
                => /\ Captured
                   /\ Unwrap(poll.target_height) = CapturedHeight + call.n
           /\ (pc = "returned" /\ result.ok)
                => /\ Captured
                   /\ HeightQueries[1].at = "capture"
                   /\ LastNet = HeightQueries[Len(HeightQueries)]
                   /\ LastNet.ans.kind = "block"
                   /\ LastNet.ans.height >= CapturedHeight + call.n
                   /\ \A i \in 1..(Len(HeightQueries) - 1) :
                         /\ HeightQueries[i].ans.kind = "block"
                         /\ HeightQueries[i].ans.height < CapturedHeight + call.n
                   /\ call.n = 0 => Len(HeightQueries) = 1
           /\ \A i \in DOMAIN net :
                 IsHeightQuery(net[i])
                    => \A j \in (i + 1)..Len(net) : IsHeightQuery(net[j])

\* a first wait for two blocks has returned Ok, after a node that was not
\* serving yet and a height read in the loop
C23_Witness ==
    /\ Polling
    /\ pc = "returned"
    /\ result.ok
    /\ call.n = 2
    /\ call.is_first_block
    /\ \E i \in DOMAIN net : net[i].ans.kind = "serde"
    /\ Len(HeightQueries) = 2
    /\ LastNet.ans.height >= CapturedHeight + 2

\* a height query of the poll has returned the target height or more
TargetObserved ==
    /\ Captured
    /\ \E i \in DOMAIN HeightQueries :
          /\ HeightQueries[i].ans.kind = "block"
          /\ HeightQueries[i].ans.height >= CapturedHeight + call.n
\* a round-trip of the poll that failed
FailedQuery(x) == x.ans.kind \in {"serde", "io"}

\* C24: the whole poll, health-check loop included, runs under the caller's
\* timeout: it never runs past it, and when the timeout is over before the
\* height H + n was observed the poll returns a Timeout error, which is not
\* the error of a failed round-trip; a poll leaves the tracker and the
\* profiler as they were, whatever its outcome.
C24_UnderTimeout ==
    Polling
        => /\ Untouched
           /\ poll.elapsed <= call.timeout
           /\ (pc = "returned" /\ result.ok) => TargetObserved
           /\ (pc = "returned" /\ ~result.ok)
                => /\ result.err.kind \in {"Timeout", "RPC"}
                   /\ result.err.kind = "Timeout"
                        => /\ ~TargetObserved
                           /\ poll.elapsed = call.timeout
                           /\ net # <<>> /\ FailedQuery(LastNet)
                                => /\ LastNet.at = "first_block"
                                   /\ first_block_retries(LastNet.ans)
                   /\ result.err.kind = "RPC"
                        => net # <<>> /\ FailedQuery(LastNet)

\* the timeout was over in the health-check loop, before any height was read
C24_Witness ==
    /\ Polling
    /\ pc = "returned"
    /\ result = Err(ETimeout)
    /\ call.timeout > 0
    /\ HeightQueries = <<>>
    /\ net # <<>>
    /\ LastNet.at = "first_block"
    /\ contract_map # <<>>

RaceAccounts ==
    { i \in DOMAIN net : net[i].trip.call = "account" /\ net[i].trip.res.ok }
RaceBroadcasts == { i \in DOMAIN net : net[i].trip.call = "broadcast" }
RaceTaken ==
    { i \in RaceBroadcasts : /\ net[i].trip.ans.kind = "response"
                             /\ ~is_err(net[i].trip.ans.res.check_tx.code) }

\* C26: the client does not serialize the transactions of one signer.  A
\* caller's account query is never held back by the other caller's
\* transaction in flight; two account queries with no transaction taken by
\* the chain between them read the same sequence; every broadcast is signed
\* with the sequence its caller read; and of two broadcasts signed with the
\* same sequence the chain takes at most one.
C26_NotSerialized ==
    /\ \A p \in Callers : pc[p] = "account" => ENABLED race_account(p)
    /\ \A i, j \in RaceAccounts :
         (i < j /\ \A k \in RaceTaken : k < i \/ k > j)
            => net[i].trip.res.val.sequence = net[j].trip.res.val.sequence
    /\ \A i \in RaceBroadcasts :
         \E a \in RaceAccounts :
            /\ a < i
            /\ net[a].caller = net[i].caller
            /\ net[i].trip.sequence = net[a].trip.res.val.sequence
    /\ \A i, j \in RaceTaken :
         net[i].trip.sequence = net[j].trip.sequence => i = j

\* both callers read the same sequence while neither had broadcast, both
\* broadcast a transaction signed with it, the chain took the first and
\* rejected the second at its pre-check
C26_Witness ==
    /\ \A p \in Callers : pc[p] = "returned"
    /\ \E i, j \in RaceBroadcasts :
        /\ i < j
        /\ net[i].caller # net[j].caller
        /\ net[i].trip.sequence = net[j].trip.sequence
        /\ \A a \in RaceAccounts : a < i
        /\ i \in RaceTaken
        /\ j \notin RaceTaken
        /\ result[net[i].caller].ok
        /\ ~result[net[j].caller].ok
        /\ result[net[j].caller].err.kind = "CosmosSdk"
        /\ result[net[j].caller].err.res.code = 32
(***************************************************************************)
(* The blocking API and the async API.                                     *)
(***************************************************************************)
\* C27: the blocking call has the outcome of the async call on the same
\* tracker, arguments and chain answers.  Compared here where the blocking
\* execute / migrate ends before it reaches its client: the async call, now
\* returned or panicked, has ended with the same error.
C27_SyncAsAsync ==
    (pc \in {"returned", "panicked"} /\ call.op \in {"execute", "migrate"})
        => LET early == sync_address(pre.contract_map, call.name)
           IN  early.ok \/ result = early
(***************************************************************************)
(* What a CosmosSdk error carries.                                         *)
(***************************************************************************)
\* C28: a call that failed because the chain rejected its transaction
\* returns a CosmosSdk error that carries the code, the log, the gas_used
\* and the gas_wanted of the phase that failed.
C28_CarriesChainResponse ==
    (Answered /\ pc = "returned" /\ ~result.ok /\ result.err.kind = "CosmosSdk")
        => LET r == LastNet.ans.res
               failed == IF is_err(r.check_tx.code) THEN r.check_tx ELSE r.deliver_tx
           IN  result.err.res = [code |-> failed.code, log |-> failed.log,
                                 gas_wanted |-> failed.gas_wanted,
                                 gas_used |-> failed.gas_used]
(***************************************************************************)
(* Transport failures of the transaction pipeline.                         *)
(***************************************************************************)
\* the last round-trip of the call failed at the transport: the account
\* query or broadcast_commit got no answer from the node
TransportFailed ==
    /\ net # <<>>
    /\ \/ LastNet.call = "account" /\ LastNet.ans = "rpc error"
       \/ IsBroadcast(LastNet) /\ LastNet.ans.kind = "error"

\* C29: a transaction call whose account query, simulation or broadcast
\* failed at the transport returns a transport error (RPC / GRPC), no
\* CosmosSdk, ProtoEncoding or other error.
C29_TransportSurfaces ==
    (call.op \in TxOps /\ pc = "returned" /\ TransportFailed)
        => ~result.ok /\ result.err.kind \in {"RPC", "GRPC"}
(***************************************************************************)
(* The stages of a transaction call.                                       *)
(***************************************************************************)
\* the round-trip a pipeline issues in the i-th place
Stage(i) ==
    CASE i % 3 = 1 -> "account"
      [] i % 3 = 2 -> "simulate"
      [] OTHER -> "broadcast"
\* the round-trips of the call are whole pipelines one after the other, none
\* of them failed
WholePipelines ==
    /\ Len(net) % 3 = 0
    /\ \A i \in DOMAIN net : net[i].call = Stage(i) /\ ~FailedTrip(net[i])
\* the step records something in the tracker or in the profiler
Records == contract_map' # contract_map \/ gas_profiler' # gas_profiler
\* the step is the return of a broadcast with both codes OK
Commits ==
    /\ Len(net') = Len(net) + 1
    /\ IsBroadcast(net'[Len(net')])
    /\ ~FailedTrip(net'[Len(net')])

\* C30 as stated: a successful transaction call has issued exactly one
\* account query, then one simulation, then one broadcast, and the tracker
\* and the profiler are as before the call until the broadcast returned with
\* both codes OK.
C30_ExactlyOnePipeline ==
    /\ (call.op \in TxOps /\ pc = "returned" /\ result.ok)
          => WholePipelines /\ Len(net) = 3
    /\ (call.op \in TxOps /\ ~Untouched)
          => \E i \in DOMAIN net : IsBroadcast(net[i]) /\ ~FailedTrip(net[i])

\* C30: a successful instantiate / execute / migrate call has issued exactly
\* one account query, then one simulation, then one broadcast; a successful
\* store_contracts call has issued that sequence once for every wasm file of
\* the directory, one file after the other; and a step of a transaction call
\* that changes the tracker or the profiler is the return of a broadcast
\* with both codes OK.
C30_StagesInOrder ==
    /\ []((call.op \in TxOps /\ pc = "returned" /\ result.ok)
            => /\ WholePipelines
               /\ Len(net) = 3 * (IF call.op = "store_contracts"
                                  THEN Len(WasmFiles) ELSE 1))
    /\ [][(call'.op \in TxOps /\ Records) => Commits]_vars

\* store_contracts has stored two wasm files: six round-trips, and both
\* code ids are in the tracker
C30_Witness ==
    /\ call.op = "store_contracts"
    /\ pc = "returned"
    /\ result.ok
    /\ Len(net) = 6
    /\ Len(result.val) = 2
    /\ ~Untouched
(***************************************************************************)
(* find_event.                                                             *)
(***************************************************************************)
\* the event types asked for, and one no transaction emits
EventTypes == {"store_code", "instantiate", "message", "wasm"}
\* the places of the events of type t in a list of events
Places(events, t) == { i \in DOMAIN events : events[i].type_str = t }
\* the same answer with the events of the two phases exchanged
Exchanged(r) == Commit(r.deliver_tx, r.check_tx)

\* C31: find_event looks at the delivered events only, in their order: it
\* returns the first event of the type asked for, and None exactly when no
\* delivered event has that type, whatever the pre-check events are.
C31_FirstDelivered ==
    Answered =>
        \A t \in EventTypes, r \in {LastNet.ans.res, Exchanged(LastNet.ans.res)} :
            LET events == r.deliver_tx.events
                found == find_event(r, t)
            IN  /\ found = None <=> Places(events, t) = {}
                /\ found # None =>
                      \E i \in Places(events, t) :
                          /\ Unwrap(found) = events[i]
                          /\ \A j \in Places(events, t) : i <= j

\* a store transaction was delivered with two store_code events that differ,
\* and the code id of the first one was returned
C31_Witness ==
    /\ Answered
    /\ call.op = "store_contracts"
    /\ pc = "returned"
    /\ result.ok
    /\ LastNet.ans.res.deliver_tx.events = EvB
    /\ Cardinality(Places(EvB, "store_code")) = 2
    /\ EvB[1] # EvB[2]
    /\ find_event(LastNet.ans.res, "store_code") = Some(EvB[1])
    /\ find_event(Exchanged(LastNet.ans.res), "store_code") = None
    /\ result.val[Len(result.val)].code_id = 2
(***************************************************************************)
(* A delivery that does not announce what the client reads from it.        *)
(***************************************************************************)
\* no delivered event of type t has an attribute key whose value passes ok
NoneAnnounces(r, t, key, ok(_)) ==
    \A i \in Places(r.deliver_tx.events, t) :
        \A k \in DOMAIN r.deliver_tx.events[i].attributes :
            LET a == r.deliver_tx.events[i].attributes[k]
            IN  a.key = key => ~ok(a.value)
\* the delivery lacks what the operation reads: a store_code event with a
\* code_id that is a number, an instantiate event with a _contract_address
Lacks(r, op) ==
    CASE op = "store_contracts" ->
            NoneAnnounces(r, "store_code", "code_id", LAMBDA v : parse_u64(v) # None)
      [] op = "instantiate" ->
            NoneAnnounces(r, "instantiate", "_contract_address", LAMBDA v : TRUE)
      [] OTHER -> FALSE

\* C32: when the transaction of a store or of an instantiate is committed
\* with both codes OK and its delivered events lack the code id (the
\* address), the call aborts: it returns neither success nor an error
\* value, and that step changes neither the tracker nor the profiler.
C32_MissingEventAborts ==
    [][(Commits /\ Lacks(net'[Len(net')].ans.res, call.op))
          => /\ pc' = "panicked"
             /\ IsPanic(result')
             /\ contract_map' = contract_map
             /\ gas_profiler' = gas_profiler]_vars

\* an instantiate was delivered with both codes OK and without an address
C32_Witness ==
    /\ call.op = "instantiate"
    /\ pc = "panicked"
    /\ Answered
    /\ ~FailedTrip(LastNet)
    /\ Lacks(LastNet.ans.res, "instantiate")
    /\ Untouched
(***************************************************************************)
(* The profiler only grows.                                                *)
(***************************************************************************)
\* C33: the gas profiler is additive: every (contract, operation key) pair
\* of the report is still in the report after any step; entries are
\* inserted or overwritten, never removed.
C33_Additive ==
    [][gas_profiler # None
          => /\ gas_profiler' # None
             /\ \A c \in DOMAIN Unwrap(gas_profiler) :
                   /\ c \in DOMAIN Unwrap(gas_profiler')
                   /\ DOMAIN Unwrap(gas_profiler)[c] \subseteq DOMAIN Unwrap(gas_profiler')[c]]_vars

\* a second operation of a contract was instrumented: its entry stands next
\* to the one that was there
C33_Witness ==
    /\ InstrumentedOther
    /\ NumEntries(ReportBefore, call.contract) = 1
    /\ NumEntries(ReportNow, call.contract) = 2
    /\ CallKey \notin DOMAIN Entries(ReportBefore, call.contract)
(***************************************************************************)
(* What a facade call may change in the tracker.                           *)
(***************************************************************************)
FacadeOps == {"store_contracts", "instantiate", "execute", "query", "migrate"}
\* the step changes the tracker in nothing but the code id of name, which
\* becomes id
SetsCodeId(name, id) ==
    /\ DOMAIN contract_map' = DOMAIN contract_map \cup {name}
    /\ CodeIdField(contract_map', name) = Some(id)
    /\ \A n \in DOMAIN contract_map' :
          /\ AddressField(contract_map', n) = AddressField(contract_map, n)
          /\ n # name => CodeIdField(contract_map', n) = CodeIdField(contract_map, n)
\* the step changes the tracker in nothing but the address of name, which
\* becomes addr
SetsAddress(name, addr) ==
    /\ DOMAIN contract_map' = DOMAIN contract_map
    /\ AddressField(contract_map', name) = Some(addr)
    /\ \A n \in DOMAIN contract_map' :
          /\ CodeIdField(contract_map', n) = CodeIdField(contract_map, n)
          /\ n # name => AddressField(contract_map', n) = AddressField(contract_map, n)

\* C34: a step of a facade call leaves the tracker as it is, unless it is
\* the commit of a store, which sets the code id of the stored file's
\* contract name, the successful return of an instantiate, which sets the
\* address of its name, or the successful return of a migrate, which sets
\* the code id of its name; the other field of the name and the entries of
\* the other names stay.  Execute and query, and an instantiate or migrate
\* that fails, change nothing.
C34_TrackerFrame ==
    [][call'.op \in FacadeOps
          => \/ contract_map' = contract_map
             \/ /\ call.op = "store_contracts"
                /\ Commits
                /\ SetsCodeId(contract_name(call.entries[call.idx].stem),
                              Unwrap(parse_u64(Announced(net'[Len(net')].ans.res,
                                                         "store_code", "code_id"))))
             \/ /\ call.op = "instantiate"
                /\ Commits
                /\ pc' = "returned" /\ result'.ok
                /\ SetsAddress(call.name, result'.val.address)
             \/ /\ call.op = "migrate"
                /\ Commits
                /\ pc' = "returned" /\ result'.ok
                /\ SetsCodeId(call.name, call.new_code_id)]_vars

\* a migrate has given a deployed contract a new code id: its address and
\* the entry of the other name are as before
C34_Witness ==
    /\ call.op = "migrate"
    /\ pc = "returned"
    /\ result.ok
    /\ CodeIdField(contract_map, call.name) # CodeIdField(pre.contract_map, call.name)
    /\ AddressField(contract_map, call.name) # None
    /\ AddressField(contract_map, call.name) = AddressField(pre.contract_map, call.name)
    /\ \E n \in DOMAIN contract_map : n # call.name /\ contract_map[n] = pre.contract_map[n]
(***************************************************************************)
(* Stored before deployed.                                                 *)
(***************************************************************************)
\* every entry of the tracker that has an address has a code id
StoredBeforeDeployed(map) ==
    \A n \in DOMAIN map : map[n].address # None => map[n].code_id # None

\* C35: a step of a facade call keeps "every entry that has an address has a
\* code id", so the tracker of any sequence of facade calls that starts with
\* it has it; and a step of a facade call that changes an address is the
\* return of an instantiate of that name, whose code id the tracker held.
C35_StoredBeforeDeployed ==
    [][call'.op \in FacadeOps
          => /\ StoredBeforeDeployed(contract_map)
                   => StoredBeforeDeployed(contract_map')
             /\ \A n \in DOMAIN contract_map' :
                   AddressField(contract_map', n) # AddressField(contract_map, n)
                      => /\ call.op = "instantiate"
                         /\ n = call.name
                         /\ code_id(contract_map, n).ok]_vars

\* a stored contract was instantiated: the tracker, which held its code id
\* and no address, now holds both
C35_Witness ==
    /\ call.op = "instantiate"
    /\ pc = "returned"
    /\ result.ok
    /\ StoredBeforeDeployed(pre.contract_map)
    /\ CodeIdField(pre.contract_map, call.name) # None
    /\ AddressField(pre.contract_map, call.name) = None
    /\ AddressField(contract_map, call.name) # None
    /\ StoredBeforeDeployed(contract_map)
(***************************************************************************)
(* The profiler of a call that returned an error.                          *)
(***************************************************************************)
\* a transaction call has returned an error
TxFailed == call.op \in TxOps /\ pc = "returned" /\ ~result.ok

\* the wasm files store_contracts stored before the entry it stopped at
StoredBefore == Cardinality({i \in 1..(call.idx - 1) : IsWasm(call.entries[i])})

\* the profiler after the first k files of the call were stored and profiled
RECURSIVE ProfiledStored(_)
ProfiledStored(k) ==
    IF k = 0 THEN pre.gas_profiler
    ELSE instrument_opt(ProfiledStored(k - 1), contract_name(WasmFiles[k].stem),
                        "Store", "Store",
                        ChainResponse(Broadcasts[k].ans.res.deliver_tx), call.loc)

\* C36, as stated: when a store / instantiate / execute / migrate call
\* returns an error, the gas profiler is exactly as before the call.
C36_ErrorAsBeforeCall == TxFailed => gas_profiler = pre.gas_profiler

\* C36, amended: when instantiate / execute / migrate returns an error the
\* gas profiler is exactly as before the call; when store_contracts returns
\* an error it is as before the call but for the Store entries of the wasm
\* files stored before the failing one; and a step of a transaction call
\* that changes the profiler is the return of a broadcast with both codes OK.
C36_ErrorRecordsNoGas ==
    /\ [](TxFailed
            => gas_profiler = IF call.op = "store_contracts"
                              THEN ProfiledStored(StoredBefore)
                              ELSE pre.gas_profiler)
    /\ [][(call'.op \in TxOps /\ gas_profiler' # gas_profiler) => Commits]_vars

\* store_contracts failed on its second wasm file: the gas of the first one
\* is in the report
C36_Witness ==
    /\ TxFailed
    /\ call.op = "store_contracts"
    /\ StoredBefore = 1
    /\ gas_profiler # pre.gas_profiler
    /\ gas_profiler = ProfiledStored(1)

\* an execute that the chain rejected has left the profiler alone
C36_WitnessExecute ==
    /\ TxFailed
    /\ call.op = "execute"
    /\ Rejected
    /\ gas_profiler # None
    /\ gas_profiler = pre.gas_profiler
(***************************************************************************)
(* store_contracts does not roll back.                                     *)
(***************************************************************************)
\* store_contracts has stopped at a wasm file: it returned an error, or the
\* file's transaction announced no code id
StoreStopped ==
    /\ call.op = "store_contracts"
    /\ pc \in {"returned", "panicked"}
    /\ ~result.ok
    /\ call.entries # <<>>

\* the contract names of the first k wasm files of the directory
StoredNames(k) == {contract_name(WasmFiles[i].stem) : i \in 1..k}

\* C37: when store_contracts stops at its k-th wasm file, the k-1 files
\* before it went through a whole pipeline each and the failing file through
\* at most one, a failed round-trip being the last one; the tracker is the
\* one before the call with the code ids of those k-1 files registered one
\* after the other and the profiler the one before the call with their gas
\* reports; the entries of the failing file and of the files not processed,
\* unless they share their name with one of the k-1 files, are as before the
\* call; a panic apart the call has returned the error, and no round-trip
\* follows: the call is over.
C37_NoRollback ==
    /\ [](StoreStopped
            => LET k == StoredBefore + 1
               IN  /\ pc = "panicked" <=> IsPanic(result)
                   /\ Len(net) \in (3 * (k - 1))..(3 * k)
                   /\ \A i \in DOMAIN net :
                         /\ net[i].call = Stage(i)
                         /\ FailedTrip(net[i]) => i = Len(net)
                   /\ contract_map = AfterStored(k - 1)
                   /\ gas_profiler = ProfiledStored(k - 1)
                   /\ \A i \in 1..(k - 1) :
                         CodeIdField(contract_map, contract_name(WasmFiles[i].stem)) # None
                   /\ \A i \in k..Len(WasmFiles) :
                         LET name == contract_name(WasmFiles[i].stem)
                         IN  name \notin StoredNames(k - 1)
                                => CodeIdField(contract_map, name)
                                      = CodeIdField(pre.contract_map, name))
    /\ [][(StoreStopped /\ net' # net) => (pc' = "idle" /\ net' = <<>>)]_vars

\* the second wasm file of a directory could not be stored: the call has
\* returned the error, the first file's code id is registered, the second
\* file's is not
C37_Witness ==
    /\ StoreStopped
    /\ pc = "returned"
    /\ StoredBefore = 1
    /\ Len(WasmFiles) >= 2
    /\ contract_name(WasmFiles[2].stem) # contract_name(WasmFiles[1].stem)
    /\ CodeIdField(pre.contract_map, contract_name(WasmFiles[1].stem)) = None
    /\ CodeIdField(contract_map, contract_name(WasmFiles[1].stem)) # None
    /\ CodeIdField(contract_map, contract_name(WasmFiles[2].stem)) = None
    /\ contract_map = AfterStored(1)
(***************************************************************************)
(* Serialized calls of one signer.                                         *)
(***************************************************************************)
\* the round-trips of the two calls do not interleave: the call that came
\* first made its last round-trip before the other made its first
Serialized ==
    \A i, j, k \in DOMAIN net :
        (i < j /\ j < k /\ net[i].caller # net[j].caller) => net[k].caller = net[j].caller

\* the sequence the chain held for the signer when round-trip i was made
ChainSequenceAt(i) == chain_seq - Cardinality({k \in RaceTaken : k >= i})

\* C38: while the calls of the signer have not overlapped, every broadcast
\* was signed with the sequence the chain held at that moment and none was
\* answered with the sequence mismatch code; and whatever the interleaving,
\* the chain's sequence grows by one with every transaction it takes and
\* with nothing else.
C38_SerializedSequence ==
    /\ [](Serialized
            => \A i \in RaceBroadcasts :
                  /\ net[i].trip.sequence = ChainSequenceAt(i)
                  /\ net[i].trip.ans.kind = "response"
                        => net[i].trip.ans.res.check_tx.code # 32)
    /\ [][chain_seq' - chain_seq
             = Cardinality(RaceTaken') - Cardinality(RaceTaken)]_vars

\* two calls one after the other, both taken by the chain: the second was
\* signed with the sequence after the first, the chain's sequence is two on
C38_Witness ==
    /\ Serialized
    /\ \A p \in Callers : pc[p] = "returned"
    /\ Cardinality(RaceTaken) = 2
    /\ \E i, j \in RaceTaken :
          /\ i < j
          /\ net[i].caller # net[j].caller
          /\ net[j].trip.sequence = net[i].trip.sequence + 1
          /\ chain_seq = net[i].trip.sequence + 2
(***************************************************************************)
(* The poll ends.                                                          *)
(***************************************************************************)
\* C39: a poll that was started returns; what it returns is Ok when its
\* last height query read the target height or more, the transport error of
\* its last round-trip when that one failed with an error the poll does not
\* wait out, and the Timeout error when the timeout was over first.
C39_PollReturns ==
    /\ Polling ~> (Polling /\ pc = "returned")
    /\ []((Polling /\ pc = "returned")
            => \/ /\ result = Ok("unit")
                  /\ TargetObserved
                  /\ LastNet.ans.kind = "block"
                  /\ LastNet.ans.height >= CapturedHeight + call.n
               \/ /\ result = Err(ETimeout)
                  /\ poll.elapsed = call.timeout
               \/ /\ net # <<>>
                  /\ LastNet.ans.kind \in {"serde", "io"}
                  /\ result = Err(ERpc(LastNet.ans.kind))
                  /\ poll.elapsed <= call.timeout)

\* a poll that went round its loop more than once was ended by the timeout
C39_Witness ==
    /\ Polling
    /\ pc = "returned"
    /\ result = Err(ETimeout)
    /\ Len(HeightQueries) >= 2
    /\ poll.elapsed = call.timeout
    /\ ~TargetObserved
====
